---- MODULE Spec2Model ----
(***************************************************************************)
(* Verification model of the CV Builder PDF service:                       *)
(*   - app/utils/security.py : is_private_ip, validate_frontend_url        *)
(*   - app/main.py           : the POST /pdf/generate handler generate_pdf *)
(*   - app/routes/og_routes.py, app/services/og_service.py :               *)
(*                             GET /og/roast and generate_roast_image      *)
(* Strings are sequences of one-character strings, so that parsing,        *)
(* lower-casing, number conversion and concatenation are computed.         *)
(* urlparse and ipaddress are modelled as CPython 3.11 implements them.    *)
(***************************************************************************)
EXTENDS Integers, Sequences, FiniteSets, TLC

(***************************************************************************)
(* Characters                                                              *)
(***************************************************************************)
DigitChars == {"0", "1", "2", "3", "4", "5", "6", "7", "8", "9"}

DigitVal ==
  ("0" :> 0) @@ ("1" :> 1) @@ ("2" :> 2) @@ ("3" :> 3) @@ ("4" :> 4) @@
  ("5" :> 5) @@ ("6" :> 6) @@ ("7" :> 7) @@ ("8" :> 8) @@ ("9" :> 9)

DigitChar == <<"0", "1", "2", "3", "4", "5", "6", "7", "8", "9">>

HexVal ==
  DigitVal @@
  ("a" :> 10) @@ ("b" :> 11) @@ ("c" :> 12) @@ ("d" :> 13) @@ ("e" :> 14) @@ ("f" :> 15) @@
  ("A" :> 10) @@ ("B" :> 11) @@ ("C" :> 12) @@ ("D" :> 13) @@ ("E" :> 14) @@ ("F" :> 15)

HexChars == DOMAIN HexVal

LowerOf ==
  ("A" :> "a") @@ ("B" :> "b") @@ ("C" :> "c") @@ ("D" :> "d") @@ ("E" :> "e") @@
  ("F" :> "f") @@ ("G" :> "g") @@ ("H" :> "h") @@ ("I" :> "i") @@ ("J" :> "j") @@
  ("K" :> "k") @@ ("L" :> "l") @@ ("M" :> "m") @@ ("N" :> "n") @@ ("O" :> "o") @@
  ("P" :> "p") @@ ("Q" :> "q") @@ ("R" :> "r") @@ ("S" :> "s") @@ ("T" :> "t") @@
  ("U" :> "u") @@ ("V" :> "v") @@ ("W" :> "w") @@ ("X" :> "x") @@ ("Y" :> "y") @@
  ("Z" :> "z")

UpperChars == DOMAIN LowerOf

LowerChars == {LowerOf[c] : c \in UpperChars}

\* urllib.parse.scheme_chars
scheme_chars == LowerChars \cup UpperChars \cup DigitChars \cup {"+", "-", "."}

\* urllib.parse._WHATWG_C0_CONTROL_OR_SPACE, restricted to the characters of the model
C0_CONTROL_OR_SPACE == {" ", "\t", "\n", "\r"}

\* urllib.parse._UNSAFE_URL_BYTES_TO_REMOVE
UNSAFE_URL_BYTES_TO_REMOVE == {"\t", "\r", "\n"}

(***************************************************************************)
(* str methods                                                             *)
(***************************************************************************)
Min(a, b) == IF a <= b THEN a ELSE b

\* c.lower()
Lower(c) == IF c \in UpperChars THEN LowerOf[c] ELSE c

\* s.lower()
LowerStr(s) == [i \in 1..Len(s) |-> Lower(s[i])]

\* c in s
Contains(s, c) == \E i \in 1..Len(s) : s[i] = c

\* s.find(c, start) + 1 with 1-based start; 0 when absent
Find(s, c, start) ==
  IF \E i \in start..Len(s) : s[i] = c
  THEN CHOOSE i \in start..Len(s) : s[i] = c /\ \A j \in start..(i - 1) : s[j] # c
  ELSE 0

\* s.rfind(c) + 1; 0 when absent
RFind(s, c) ==
  IF Contains(s, c)
  THEN CHOOSE i \in 1..Len(s) : s[i] = c /\ \A j \in (i + 1)..Len(s) : s[j] # c
  ELSE 0

\* s.partition(c) as <<before, found, after>>
Partition(s, c) ==
  LET i == Find(s, c, 1)
  IN  IF i = 0 THEN <<s, FALSE, <<>>>>
      ELSE <<SubSeq(s, 1, i - 1), TRUE, SubSeq(s, i + 1, Len(s))>>

\* s.rpartition(c) as <<before, found, after>>
RPartition(s, c) ==
  LET i == RFind(s, c)
  IN  IF i = 0 THEN <<<<>>, FALSE, s>>
      ELSE <<SubSeq(s, 1, i - 1), TRUE, SubSeq(s, i + 1, Len(s))>>

\* s.split(c)
RECURSIVE Split(_, _)
Split(s, c) ==
  LET i == Find(s, c, 1)
  IN  IF i = 0 THEN <<s>>
      ELSE <<SubSeq(s, 1, i - 1)>> \o Split(SubSeq(s, i + 1, Len(s)), c)

\* s.startswith(p)
StartsWith(s, p) == Len(p) <= Len(s) /\ SubSeq(s, 1, Len(p)) = p

\* s.endswith(p)
EndsWith(s, p) == Len(p) <= Len(s) /\ SubSeq(s, Len(s) - Len(p) + 1, Len(s)) = p

\* p in s
IsSubstring(p, s) ==
  \E i \in 1..(Len(s) - Len(p) + 1) : SubSeq(s, i, i + Len(p) - 1) = p

\* s.lstrip(chars)
RECURSIVE LStrip(_, _)
LStrip(s, chars) ==
  IF s # <<>> /\ Head(s) \in chars THEN LStrip(Tail(s), chars) ELSE s

\* s.replace(b, "") for every b of chars
RemoveChars(s, chars) == SelectSeq(s, LAMBDA c : c \notin chars)

\* s.isdigit() and s.isascii()
IsDigits(s) == s # <<>> /\ \A i \in 1..Len(s) : s[i] \in DigitChars

\* int(s) for a string of decimal digits; values above IntCap are reported as IntCap,
\* which is above every limit the program compares a number with
IntCap == 100000

RECURSIVE DecValue(_)
DecValue(s) ==
  IF s = <<>> THEN 0
  ELSE Min(IntCap, DecValue(SubSeq(s, 1, Len(s) - 1)) * 10 + DigitVal[s[Len(s)]])

\* str(n) for n >= 0
RECURSIVE ToDec(_)
ToDec(n) ==
  IF n < 10 THEN <<DigitChar[n + 1]>>
  ELSE ToDec(n \div 10) \o <<DigitChar[(n % 10) + 1]>>

\* sep.join(items)
RECURSIVE Join(_, _)
Join(sep, items) ==
  IF items = <<>> THEN <<>>
  ELSE IF Len(items) = 1 THEN items[1]
  ELSE items[1] \o sep \o Join(sep, Tail(items))

(***************************************************************************)
(* ipaddress.ip_address and the address properties is_private_ip reads     *)
(***************************************************************************)
\* '%x' % n
RECURSIVE ToHex(_)
ToHex(n) ==
  LET HexChar == <<"0", "1", "2", "3", "4", "5", "6", "7", "8", "9",
                   "a", "b", "c", "d", "e", "f">>
  IN  IF n < 16 THEN <<HexChar[n + 1]>>
      ELSE ToHex(n \div 16) \o <<HexChar[(n % 16) + 1]>>

\* int(s, 16) for a string of at most 4 hexadecimal digits
RECURSIVE HexValue(_)
HexValue(s) ==
  IF s = <<>> THEN 0
  ELSE HexValue(SubSeq(s, 1, Len(s) - 1)) * 16 + HexVal[s[Len(s)]]

\* IPv4Address._parse_octet does not raise
OctetOk(o) ==
  /\ o # <<>>
  /\ IsDigits(o)
  /\ Len(o) <= 3
  /\ (o = <<"0">> \/ o[1] # "0")
  /\ DecValue(o) <= 255

\* IPv4Address._ip_int_from_string on the parts between the dots
IPv4FromOctets(octets) ==
  IF Len(octets) = 4 /\ \A i \in 1..4 : OctetOk(octets[i])
  THEN [ok |-> TRUE, parts |-> [i \in 1..4 |-> DecValue(octets[i])]]
  ELSE [ok |-> FALSE, parts |-> <<>>]

\* IPv4Address(s): [ok |-> it did not raise, parts |-> the four octets]
IPv4Address(s) ==
  IF Contains(s, "/") \/ s = <<>> THEN [ok |-> FALSE, parts |-> <<>>]
  ELSE IPv4FromOctets(Split(s, "."))

\* IPv6Address._parse_hextet does not raise
HextetOk(h) == h # <<>> /\ Len(h) <= 4 /\ \A i \in 1..Len(h) : h[i] \in HexChars

\* the address could not be parsed
BadAddress == [ok |-> FALSE, parts |-> <<>>]

\* IPv6Address._ip_int_from_string, no '::' in the address: eight hextets are required
IPv6Full(parts) ==
  IF Len(parts) # 8 \/ \E i \in 1..Len(parts) : ~HextetOk(parts[i]) THEN BadAddress
  ELSE [ok |-> TRUE, parts |-> [i \in 1..8 |-> HexValue(parts[i])]]

\* IPv6Address._ip_int_from_string, a '::' in the address: hi hextets before it, lo
\* hextets after it, zeros between
IPv6Compressed(parts, hi, lo) ==
  IF \/ (parts[1] = <<>> /\ hi # 0)
     \/ (parts[Len(parts)] = <<>> /\ lo # 0)
     \/ 8 - (hi + lo) < 1
     \/ \E i \in 1..hi : ~HextetOk(parts[i])
     \/ \E i \in (Len(parts) - lo + 1)..Len(parts) : ~HextetOk(parts[i])
  THEN BadAddress
  ELSE [ok |-> TRUE,
        parts |-> [i \in 1..hi |-> HexValue(parts[i])]
                    \o [i \in 1..(8 - (hi + lo)) |-> 0]
                    \o [i \in 1..lo |-> HexValue(parts[Len(parts) - lo + i])]]

\* IPv6Address._ip_int_from_string, the search for '::': skips are the empty parts that
\* are neither the first nor the last
IPv6Skip(parts, skips) ==
  IF Cardinality(skips) > 1 THEN BadAddress
  ELSE IF skips = {} THEN IPv6Full(parts)
  ELSE LET skip == CHOOSE i \in skips : TRUE
       IN  IPv6Compressed(parts,
                          IF parts[1] = <<>> THEN skip - 2 ELSE skip - 1,
                          IF parts[Len(parts)] = <<>> THEN Len(parts) - skip - 1
                          ELSE Len(parts) - skip)

\* IPv6Address._ip_int_from_string, after an IPv4 suffix was replaced: at most 9 parts
IPv6FromParts(parts) ==
  IF Len(parts) > 9 THEN BadAddress
  ELSE IPv6Skip(parts, {i \in 2..(Len(parts) - 1) : parts[i] = <<>>})

\* IPv6Address._ip_int_from_string, an IPv4 suffix v4 becomes two hextets
IPv6WithV4(parts, v4) ==
  IF ~v4.ok THEN BadAddress
  ELSE IPv6FromParts(SubSeq(parts, 1, Len(parts) - 1)
                       \o <<ToHex(v4.parts[1] * 256 + v4.parts[2]),
                            ToHex(v4.parts[3] * 256 + v4.parts[4])>>)

\* IPv6Address._ip_int_from_string, the parts between the colons: at least 3
IPv6FromSplit(parts) ==
  IF Len(parts) < 3 THEN BadAddress
  ELSE IF Contains(parts[Len(parts)], ".")
  THEN IPv6WithV4(parts, IPv4Address(parts[Len(parts)]))
  ELSE IPv6FromParts(parts)

\* IPv6Address._ip_int_from_string, the address kept as its eight hextets
IPv6FromString(s) == IF s = <<>> THEN BadAddress ELSE IPv6FromSplit(Split(s, ":"))

\* IPv6Address(s) after the scope id was split off (_split_scope_id)
IPv6Scoped(p) ==
  IF p[2] /\ (p[3] = <<>> \/ Contains(p[3], "%")) THEN BadAddress
  ELSE IPv6FromString(p[1])

\* IPv6Address(s)
IPv6Address(s) ==
  IF Contains(s, "/") THEN BadAddress ELSE IPv6Scoped(Partition(s, "%"))

\* ipaddress.ip_address: IPv4Address is tried first, then IPv6Address; version 0
\* stands for the ValueError
PickAddress(a4, a6) ==
  IF a4.ok THEN [version |-> 4, parts |-> a4.parts]
  ELSE IF a6.ok THEN [version |-> 6, parts |-> a6.parts]
  ELSE [version |-> 0, parts |-> <<>>]

\* ipaddress.ip_address(s)
ip_address(s) == PickAddress(IPv4Address(s), IPv6Address(s))

\* address in network: the first plen bits agree; width is the size of a part in bits
InNetwork(parts, net, width) ==
  \A i \in 1..Len(parts) :
    LET rest == net.plen - width * (i - 1)
        bits == IF rest < 0 THEN 0 ELSE IF rest > width THEN width ELSE rest
        unit == 2 ^ (width - bits)
    IN  parts[i] \div unit = net.base[i] \div unit

Net4(a, b, c, d, plen) == [base |-> <<a, b, c, d>>, plen |-> plen]

Net6(a, b, c, plen) == [base |-> <<a, b, c, 0, 0, 0, 0, 0>>, plen |-> plen]

\* _IPv4Constants
V4_linklocal_network == Net4(169, 254, 0, 0, 16)

V4_loopback_network == Net4(127, 0, 0, 0, 8)

V4_reserved_network == Net4(240, 0, 0, 0, 4)

V4_private_networks ==
  { Net4(0, 0, 0, 0, 8), Net4(10, 0, 0, 0, 8), Net4(127, 0, 0, 0, 8),
    Net4(169, 254, 0, 0, 16), Net4(172, 16, 0, 0, 12), Net4(192, 0, 0, 0, 29),
    Net4(192, 0, 0, 170, 31), Net4(192, 0, 2, 0, 24), Net4(192, 168, 0, 0, 16),
    Net4(198, 18, 0, 0, 15), Net4(198, 51, 100, 0, 24), Net4(203, 0, 113, 0, 24),
    Net4(240, 0, 0, 0, 4), Net4(255, 255, 255, 255, 32) }

\* _IPv6Constants
V6_linklocal_network == Net6(65152, 0, 0, 10)

V6_private_networks ==
  { [base |-> <<0, 0, 0, 0, 0, 0, 0, 1>>, plen |-> 128],
    [base |-> <<0, 0, 0, 0, 0, 0, 0, 0>>, plen |-> 128],
    [base |-> <<0, 0, 0, 0, 0, 65535, 0, 0>>, plen |-> 96],
    Net6(256, 0, 0, 64), Net6(8193, 0, 0, 23), Net6(8193, 2, 0, 48),
    Net6(8193, 3512, 0, 32), Net6(8193, 16, 0, 28), Net6(64512, 0, 0, 7),
    Net6(65152, 0, 0, 10) }

V6_reserved_networks ==
  { Net6(0, 0, 0, 8), Net6(256, 0, 0, 8), Net6(512, 0, 0, 7), Net6(1024, 0, 0, 6),
    Net6(2048, 0, 0, 5), Net6(4096, 0, 0, 4), Net6(16384, 0, 0, 3),
    Net6(24576, 0, 0, 3), Net6(32768, 0, 0, 3), Net6(40960, 0, 0, 3),
    Net6(49152, 0, 0, 3), Net6(57344, 0, 0, 4), Net6(61440, 0, 0, 5),
    Net6(63488, 0, 0, 6), Net6(65024, 0, 0, 9) }

\* IPv4Address.is_private / is_loopback / is_link_local / is_reserved
V4IsPrivate(p) == \E net \in V4_private_networks : InNetwork(p, net, 8)

V4IsLoopback(p) == InNetwork(p, V4_loopback_network, 8)

V4IsLinkLocal(p) == InNetwork(p, V4_linklocal_network, 8)

V4IsReserved(p) == InNetwork(p, V4_reserved_network, 8)

\* IPv6Address.ipv4_mapped is not None
V6IsMapped(p) == (\A i \in 1..5 : p[i] = 0) /\ p[6] = 65535

\* IPv6Address.ipv4_mapped
V6Mapped(p) == <<p[7] \div 256, p[7] % 256, p[8] \div 256, p[8] % 256>>

\* IPv6Address.is_private / is_loopback / is_link_local / is_reserved
V6IsPrivate(p) ==
  IF V6IsMapped(p) THEN V4IsPrivate(V6Mapped(p))
  ELSE \E net \in V6_private_networks : InNetwork(p, net, 16)

V6IsLoopback(p) == p = <<0, 0, 0, 0, 0, 0, 0, 1>>

V6IsLinkLocal(p) == InNetwork(p, V6_linklocal_network, 16)

V6IsReserved(p) == \E net \in V6_reserved_networks : InNetwork(p, net, 16)

\* ip.is_private or ip.is_loopback or ip.is_link_local or ip.is_reserved
IsInternal(ip) ==
  IF ip.version = 4
  THEN V4IsPrivate(ip.parts) \/ V4IsLoopback(ip.parts)
         \/ V4IsLinkLocal(ip.parts) \/ V4IsReserved(ip.parts)
  ELSE IF ip.version = 6
  THEN V6IsPrivate(ip.parts) \/ V6IsLoopback(ip.parts)
         \/ V6IsLinkLocal(ip.parts) \/ V6IsReserved(ip.parts)
  ELSE FALSE

\* security.is_private_ip: False when ip_address raises ValueError
is_private_ip(host) == IsInternal(ip_address(host))

(***************************************************************************)
(* Text of the messages                                                    *)
(***************************************************************************)
\* "http"
T_http ==
  <<"h", "t", "t", "p">>

\* "https"
T_https ==
  <<"h", "t", "t", "p", "s">>

\* "localhost"
T_localhost ==
  <<"l", "o", "c", "a", "l", "h", "o", "s", "t">>

\* "127.0.0.1"
T_127_0_0_1 ==
  <<"1", "2", "7", ".", "0", ".", "0", ".", "1">>

\* "ftp"
T_ftp ==
  <<"f", "t", "p">>

\* "127."
T_127_dot ==
  <<"1", "2", "7", ".">>

\* "://"
T_colon_slash_slash ==
  <<":", "/", "/">>

\* "Invalid IPv6 URL"
T_invalid_ipv6_url ==
  <<"I", "n", "v", "a", "l", "i", "d", " ", "I", "P", "v", "6", " ", "U", "R", "L">>

\* "IPvFuture address is invalid"
T_ipvfuture_invalid ==
  <<"I", "P", "v", "F", "u", "t", "u", "r", "e", " ", "a", "d", "d", "r", "e", "s", "s",
    " ", "i", "s", " ", "i", "n", "v", "a", "l", "i", "d">>

\* "An IPv4 address cannot be in brackets"
T_ipv4_in_brackets ==
  <<"A", "n", " ", "I", "P", "v", "4", " ", "a", "d", "d", "r", "e", "s", "s", " ", "c",
    "a", "n", "n", "o", "t", " ", "b", "e", " ", "i", "n", " ", "b", "r", "a", "c", "k",
    "e", "t", "s">>

\* " does not appear to be an IPv4 or IPv6 address"
T_not_an_address ==
  <<" ", "d", "o", "e", "s", " ", "n", "o", "t", " ", "a", "p", "p", "e", "a", "r", " ",
    "t", "o", " ", "b", "e", " ", "a", "n", " ", "I", "P", "v", "4", " ", "o", "r", " ",
    "I", "P", "v", "6", " ", "a", "d", "d", "r", "e", "s", "s">>

\* "Port could not be cast to integer value as "
T_port_not_integer ==
  <<"P", "o", "r", "t", " ", "c", "o", "u", "l", "d", " ", "n", "o", "t", " ", "b", "e",
    " ", "c", "a", "s", "t", " ", "t", "o", " ", "i", "n", "t", "e", "g", "e", "r", " ",
    "v", "a", "l", "u", "e", " ", "a", "s", " ">>

\* "Port out of range 0-65535"
T_port_out_of_range ==
  <<"P", "o", "r", "t", " ", "o", "u", "t", " ", "o", "f", " ", "r", "a", "n", "g", "e",
    " ", "0", "-", "6", "5", "5", "3", "5">>

\* "frontend_url is required"
T_required ==
  <<"f", "r", "o", "n", "t", "e", "n", "d", "_", "u", "r", "l", " ", "i", "s", " ", "r",
    "e", "q", "u", "i", "r", "e", "d">>

\* "Invalid frontend_url format: "
T_invalid_format ==
  <<"I", "n", "v", "a", "l", "i", "d", " ", "f", "r", "o", "n", "t", "e", "n", "d", "_",
    "u", "r", "l", " ", "f", "o", "r", "m", "a", "t", ":", " ">>

\* "Invalid scheme: "
T_invalid_scheme ==
  <<"I", "n", "v", "a", "l", "i", "d", " ", "s", "c", "h", "e", "m", "e", ":", " ">>

\* ". Only http and https are allowed."
T_only_http ==
  <<".", " ", "O", "n", "l", "y", " ", "h", "t", "t", "p", " ", "a", "n", "d", " ", "h",
    "t", "t", "p", "s", " ", "a", "r", "e", " ", "a", "l", "l", "o", "w", "e", "d", ".">>

\* "Invalid frontend_url: missing hostname"
T_missing_hostname ==
  <<"I", "n", "v", "a", "l", "i", "d", " ", "f", "r", "o", "n", "t", "e", "n", "d", "_",
    "u", "r", "l", ":", " ", "m", "i", "s", "s", "i", "n", "g", " ", "h", "o", "s", "t",
    "n", "a", "m", "e">>

\* "Private IP addresses are not allowed: "
T_private_ip ==
  <<"P", "r", "i", "v", "a", "t", "e", " ", "I", "P", " ", "a", "d", "d", "r", "e", "s",
    "s", "e", "s", " ", "a", "r", "e", " ", "n", "o", "t", " ", "a", "l", "l", "o", "w",
    "e", "d", ":", " ">>

\* "frontend_url origin '"
T_origin_open ==
  <<"f", "r", "o", "n", "t", "e", "n", "d", "_", "u", "r", "l", " ", "o", "r", "i", "g",
    "i", "n", " ", "'">>

\* "' is not in the allowed list. "
T_not_in_list ==
  <<"'", " ", "i", "s", " ", "n", "o", "t", " ", "i", "n", " ", "t", "h", "e", " ", "a",
    "l", "l", "o", "w", "e", "d", " ", "l", "i", "s", "t", ".", " ">>

\* "Allowed origins: "
T_allowed_origins ==
  <<"A", "l", "l", "o", "w", "e", "d", " ", "o", "r", "i", "g", "i", "n", "s", ":", " ">>

\* ", "
T_comma_space ==
  <<",", " ">>

\* "http://localhost:5173"
T_default_frontend ==
  <<"h", "t", "t", "p", ":", "/", "/", "l", "o", "c", "a", "l", "h", "o", "s", "t", ":",
    "5", "1", "7", "3">>

\* "classic"
T_classic ==
  <<"c", "l", "a", "s", "s", "i", "c">>

\* "modern"
T_modern ==
  <<"m", "o", "d", "e", "r", "n">>

\* "/print/"
T_print ==
  <<"/", "p", "r", "i", "n", "t", "/">>

\* "window.cvData = "
T_cv_open ==
  <<"w", "i", "n", "d", "o", "w", ".", "c", "v", "D", "a", "t", "a", " ", "=", " ">>

\* "; window.template = '"
T_tpl_open ==
  <<";", " ", "w", "i", "n", "d", "o", "w", ".", "t", "e", "m", "p", "l", "a", "t", "e",
    " ", "=", " ", "'">>

\* "';"
T_tpl_close ==
  <<"'", ";">>

\* "Error generating PDF: "
T_error_generating ==
  <<"E", "r", "r", "o", "r", " ", "g", "e", "n", "e", "r", "a", "t", "i", "n", "g", " ",
    "P", "D", "F", ":", " ">>

\* "application/pdf"
T_application_pdf ==
  <<"a", "p", "p", "l", "i", "c", "a", "t", "i", "o", "n", "/", "p", "d", "f">>

\* "attachment; filename=cv_"
T_attachment ==
  <<"a", "t", "t", "a", "c", "h", "m", "e", "n", "t", ";", " ", "f", "i", "l", "e", "n",
    "a", "m", "e", "=", "c", "v", "_">>

\* "_"
T_underscore ==
  <<"_">>

\* ".pdf"
T_dot_pdf ==
  <<".", "p", "d", "f">>

\* "A4"
T_A4 ==
  <<"A", "4">>

\* "0.5in"
T_half_inch ==
  <<"0", ".", "5", "i", "n">>

\* "networkidle"
T_networkidle ==
  <<"n", "e", "t", "w", "o", "r", "k", "i", "d", "l", "e">>

\* "print_background"
T_print_background ==
  <<"p", "r", "i", "n", "t", "_", "b", "a", "c", "k", "g", "r", "o", "u", "n", "d">>

\* repr(s) of a string without quotes or escapes
Repr(s) == <<"'">> \o s \o <<"'">>

(***************************************************************************)
(* urllib.parse.urlparse and the hostname and port of its result           *)
(***************************************************************************)
\* slip: only a slash ends the netloc
splitnetloc_slash_only(url) ==
  LET ends  == {Find(url, c, 3) : c \in {"/"}} \ {0}
      delim == IF ends = {} THEN Len(url) + 1
               ELSE CHOOSE d \in ends : \A e \in ends : d <= e
  IN  <<SubSeq(url, 3, delim - 1), SubSeq(url, delim, Len(url))>>

\* _splitnetloc(url, 2) as <<netloc, rest>>
splitnetloc(url) ==
  LET ends  == {Find(url, c, 3) : c \in {"/", "?", "#"}} \ {0}
      delim == IF ends = {} THEN Len(url) + 1
               ELSE CHOOSE d \in ends : \A e \in ends : d <= e
  IN  <<SubSeq(url, 3, delim - 1), SubSeq(url, delim, Len(url))>>

\* _check_bracketed_host, the host is not an IPvFuture address: it must be IPv6
BracketedAddressError(hostname, ip) ==
  IF ip.version = 0 THEN Repr(hostname) \o T_not_an_address
  ELSE IF ip.version = 4 THEN T_ipv4_in_brackets
  ELSE <<>>

\* _check_bracketed_host, the host begins with v: v, hex digits, a dot, something
BracketedFutureError(rest, dot) ==
  IF dot > 1 /\ (\A k \in 1..(dot - 1) : rest[k] \in HexChars) /\ Len(rest) > dot
  THEN <<>>
  ELSE T_ipvfuture_invalid

\* _check_bracketed_host(hostname): the message of the ValueError, <<>> when it returns
check_bracketed_host(hostname) ==
  IF hostname # <<>> /\ hostname[1] = "v"
  THEN BracketedFutureError(Tail(hostname), Find(Tail(hostname), ".", 1))
  ELSE BracketedAddressError(hostname, ip_address(hostname))

\* urlsplit, the checks of the brackets of the netloc: the message of the ValueError
NetlocError(netloc) ==
  IF Contains(netloc, "[") # Contains(netloc, "]") THEN T_invalid_ipv6_url
  ELSE IF Contains(netloc, "[")
  THEN check_bracketed_host(Partition(Partition(netloc, "[")[3], "]")[1])
  ELSE <<>>

\* urlsplit, the query is cut off what is left of the fragment
SplitQuery(scheme, netloc, error, query, fragment) ==
  [error |-> error, scheme |-> scheme, netloc |-> netloc,
   path |-> query[1], query |-> query[3], fragment |-> fragment]

\* urlsplit, the fragment is cut off the rest
SplitFragment(scheme, netloc, error, frag) ==
  SplitQuery(scheme, netloc, error, Partition(frag[1], "?"), frag[3])

\* urlsplit, after the netloc
SplitRest(scheme, netloc, url) ==
  SplitFragment(scheme, netloc, NetlocError(netloc), Partition(url, "#"))

\* urlsplit, after the scheme: a netloc follows '//'
SplitNetloc(scheme, url, split) ==
  IF StartsWith(url, <<"/", "/">>) THEN SplitRest(scheme, split[1], split[2])
  ELSE SplitRest(scheme, <<>>, url)

\* urlsplit, the scheme: the text before the first colon, at position i, when it
\* begins with a letter and has scheme characters only; it is lower-cased
SplitScheme(url, i) ==
  IF /\ i > 1
     /\ url[1] \in LowerChars \cup UpperChars
     /\ \A k \in 1..(i - 1) : url[k] \in scheme_chars
  THEN SplitNetloc(LowerStr(SubSeq(url, 1, i - 1)), SubSeq(url, i + 1, Len(url)),
                   splitnetloc(SubSeq(url, i + 1, Len(url))))
  ELSE SplitNetloc(<<>>, url, splitnetloc(url))

\* urlsplit, after the leading characters were stripped and tab, CR, LF removed
SplitClean(url) == SplitScheme(url, Find(url, ":", 1))

\* urlsplit(url): error is the message of the ValueError it raises, <<>> when it returns
urlsplit(url) ==
  SplitClean(RemoveChars(LStrip(url, C0_CONTROL_OR_SPACE), UNSAFE_URL_BYTES_TO_REMOVE))

\* SplitResult._hostinfo, a bracketed host: the port follows the colon after ']'
BracketedInfo(inner) == <<inner[1], Partition(inner[3], ":")[3]>>

\* SplitResult._hostinfo, no bracket: the port follows the first colon
PlainInfo(plain) == <<plain[1], plain[3]>>

\* SplitResult._hostinfo, info is the netloc after the last '@'
HostPort(info, br) ==
  IF br[2] THEN BracketedInfo(Partition(br[3], "]")) ELSE PlainInfo(Partition(info, ":"))

\* slip: the host is taken after the first '@', not the last
hostinfo_first_at(netloc) ==
  HostPort(Partition(netloc, "@")[3], Partition(Partition(netloc, "@")[3], "["))

\* SplitResult._hostinfo as <<hostname, port>>, the port <<>> for None
hostinfo(netloc) ==
  HostPort(RPartition(netloc, "@")[3], Partition(RPartition(netloc, "@")[3], "["))

\* slip: the host is kept as it is written
LowerHost_as_written(p) == p[1] \o (IF p[2] THEN <<"%">> ELSE <<>>) \o p[3]

\* SplitResult.hostname, the host lower-cased up to a zone
LowerHost(p) == LowerStr(p[1]) \o (IF p[2] THEN <<"%">> ELSE <<>>) \o p[3]

\* SplitResult.hostname, <<>> for None
hostname(parsed) == LowerHost(Partition(hostinfo(parsed.netloc)[1], "%"))

\* SplitResult.port on the text of the port
PortOf(port) ==
  IF port = <<>> THEN [error |-> <<>>, value |-> -1]
  ELSE IF ~IsDigits(port)
  THEN [error |-> T_port_not_integer \o Repr(port), value |-> -1]
  ELSE IF DecValue(port) > 65535
  THEN [error |-> T_port_out_of_range, value |-> -1]
  ELSE [error |-> <<>>, value |-> DecValue(port)]

\* SplitResult.port: value -1 for None; error is the message of the ValueError
portinfo(parsed) == PortOf(hostinfo(parsed.netloc)[2])

\* urlparse(url): urlsplit, then the parameters are cut off the path, which
\* the validator never reads
urlparse(url) == urlsplit(url)

(***************************************************************************)
(* security.validate_frontend_url                                          *)
(***************************************************************************)
\* HTTPException(status_code=400, detail=...) labelled with the failed check
Reject(kind, detail) == [kind |-> kind, status |-> 400, detail |-> detail, origin |-> <<>>]

\* an exception other than HTTPException leaving the function
Raise(message) == [kind |-> "ValueError", status |-> 0, detail |-> message, origin |-> <<>>]

\* the returned origin
Returns(origin) == [kind |-> "ok", status |-> 0, detail |-> <<>>, origin |-> origin]

\* slip: ftp is taken for a web scheme as well
SchemeAllowed_ftp(scheme) == scheme \in {T_http, T_https, T_ftp}

\* slip: only a scheme that is present is checked
SchemeAllowed_or_empty(scheme) == scheme = <<>> \/ scheme \in {T_http, T_https}

\* parsed.scheme in ("http", "https")
SchemeAllowed(scheme) == scheme \in {T_http, T_https}

\* slip: the whole loopback range is exempted instead of the one literal
LocalhostExempt_loopback(host) == host = T_localhost \/ StartsWith(host, T_127_dot)

\* parsed.hostname in ("localhost", "127.0.0.1")
LocalhostExempt(host) == host \in {T_localhost, T_127_0_0_1}

\* the private address check fails the validation
PrivateBlocked(host) == is_private_ip(host) /\ ~LocalhostExempt(host)

\* slip: a missing port is taken for 80 whatever the scheme
EffectivePort_always_80(scheme, port) ==
  IF port = -1 THEN 80 ELSE port

\* port = 443 if parsed.scheme == "https" else 80, when parsed.port is None
EffectivePort(scheme, port) ==
  IF port = -1 THEN (IF scheme = T_https THEN 443 ELSE 80) ELSE port

\* origin = scheme://hostname, with :port unless the port is the default of the scheme
Origin(scheme, host, port) ==
  LET base == scheme \o T_colon_slash_slash \o host
  IN  IF (scheme = T_http /\ port # 80) \/ (scheme = T_https /\ port # 443)
      THEN base \o <<":">> \o ToDec(port)
      ELSE base

\* slip: an entry that begins the origin is taken for the origin
InAllowlist_prefix(origin, allowed_origins) ==
  \E k \in 1..Len(allowed_origins) : StartsWith(origin, allowed_origins[k])

\* origin in allowed_origins
InAllowlist(origin, allowed_origins) ==
  \E k \in 1..Len(allowed_origins) : allowed_origins[k] = origin

\* slip: only the first entry of the list is reported
NotAllowedDetail_first(origin, allowed_origins) ==
  T_origin_open \o origin \o T_not_in_list
    \o T_allowed_origins \o (IF allowed_origins = <<>> THEN <<>> ELSE allowed_origins[1])

\* the detail of the rejection of an origin that is not in the list
NotAllowedDetail(origin, allowed_origins) ==
  T_origin_open \o origin \o T_not_in_list
    \o T_allowed_origins \o Join(T_comma_space, allowed_origins)

\* validate_frontend_url, the check against the allow-list and the return
ValidateOrigin(origin, allowed_origins) ==
  IF ~InAllowlist(origin, allowed_origins)
  THEN Reject("OriginNotAllowlisted", NotAllowedDetail(origin, allowed_origins))
  ELSE Returns(origin)

\* slip: the allow-list is consulted before the private address check
ValidateHost_allowlist_first(scheme, host, pinfo, allowed_origins) ==
  IF host = <<>>
  THEN Reject("MissingHost", T_missing_hostname)
  ELSE IF pinfo.error # <<>>
  THEN Raise(pinfo.error)
  ELSE IF ~InAllowlist(Origin(scheme, host, EffectivePort(scheme, pinfo.value)),
                       allowed_origins)
  THEN ValidateOrigin(Origin(scheme, host, EffectivePort(scheme, pinfo.value)),
                      allowed_origins)
  ELSE IF PrivateBlocked(host)
  THEN Reject("PrivateAddressBlocked", T_private_ip \o host)
  ELSE Returns(Origin(scheme, host, EffectivePort(scheme, pinfo.value)))

\* validate_frontend_url, the checks of the host, then parsed.port, which raises
\* ValueError outside the try block
ValidateHost(scheme, host, pinfo, allowed_origins) ==
  IF host = <<>>
  THEN Reject("MissingHost", T_missing_hostname)
  ELSE IF PrivateBlocked(host)
  THEN Reject("PrivateAddressBlocked", T_private_ip \o host)
  ELSE IF pinfo.error # <<>>
  THEN Raise(pinfo.error)
  ELSE ValidateOrigin(Origin(scheme, host, EffectivePort(scheme, pinfo.value)),
                      allowed_origins)

\* validate_frontend_url, after urlparse: its ValueError, then the scheme
ValidateParsed(parsed, allowed_origins) ==
  IF parsed.error # <<>>
  THEN Reject("MalformedTarget", T_invalid_format \o parsed.error)
  ELSE IF ~SchemeAllowed(parsed.scheme)
  THEN Reject("DisallowedScheme", T_invalid_scheme \o parsed.scheme \o T_only_http)
  ELSE ValidateHost(parsed.scheme, hostname(parsed), portinfo(parsed), allowed_origins)

validate_frontend_url(url, allowed_origins) ==
  IF url = <<>>
  THEN Reject("MissingTarget", T_required)
  ELSE ValidateParsed(urlparse(url), allowed_origins)

(***************************************************************************)
(* Inputs: the configured allow-lists and the candidate URLs of requests   *)
(***************************************************************************)
\* "http://localhost:5173"
A_localhost_5173 ==
  <<"h", "t", "t", "p", ":", "/", "/", "l", "o", "c", "a", "l", "h", "o", "s", "t", ":",
    "5", "1", "7", "3">>

\* "http://127.0.0.1:5173"
A_127_5173 ==
  <<"h", "t", "t", "p", ":", "/", "/", "1", "2", "7", ".", "0", ".", "0", ".", "1", ":",
    "5", "1", "7", "3">>

\* "http://10.0.0.1"
A_10_0_0_1 ==
  <<"h", "t", "t", "p", ":", "/", "/", "1", "0", ".", "0", ".", "0", ".", "1">>

\* "https://example.com"
A_example ==
  <<"h", "t", "t", "p", "s", ":", "/", "/", "e", "x", "a", "m", "p", "l", "e", ".", "c",
    "o", "m">>

\* "http://::1:5173"
A_v6_loopback ==
  <<"h", "t", "t", "p", ":", "/", "/", ":", ":", "1", ":", "5", "1", "7", "3">>

\* the origins an allow-list is configured from
AllowPool == {A_localhost_5173, A_127_5173, A_10_0_0_1, A_example, A_v6_loopback}

\* the longest allow-list of the model
MaxAllow == 2

RECURSIVE SeqsUpTo(_, _)
SeqsUpTo(S, n) ==
  IF n = 0 THEN {<<>>}
  ELSE LET shorter == SeqsUpTo(S, n - 1)
       IN  shorter \cup {Append(q, x) : q \in {r \in shorter : Len(r) = n - 1}, x \in S}

\* allow-lists: every list of at most MaxAllow distinct origins of the pool, in every order
AllowLists ==
  {q \in SeqsUpTo(AllowPool, MaxAllow) : \A i, j \in 1..Len(q) : i # j => q[i] # q[j]}

\* "http://"
P_http ==
  <<"h", "t", "t", "p", ":", "/", "/">>

\* "https://"
P_https ==
  <<"h", "t", "t", "p", "s", ":", "/", "/">>

\* "HTTP://"
P_HTTP_upper ==
  <<"H", "T", "T", "P", ":", "/", "/">>

\* beginnings that urlparse reads as the http or https scheme
HttpPrefixes ==
  { P_http, P_https, P_HTTP_upper }

\* " http://"
P_space_http ==
  <<" ", "h", "t", "t", "p", ":", "/", "/">>

\* "ht\ttp://"
P_tab_in_http ==
  <<"h", "t", "\t", "t", "p", ":", "/", "/">>

\* "http:/"
P_http_one_slash ==
  <<"h", "t", "t", "p", ":", "/">>

\* "http:"
P_http_no_slash ==
  <<"h", "t", "t", "p", ":">>

\* "file://"
P_file ==
  <<"f", "i", "l", "e", ":", "/", "/">>

\* "ftp://"
P_ftp ==
  <<"f", "t", "p", ":", "/", "/">>

\* "javascript:"
P_javascript ==
  <<"j", "a", "v", "a", "s", "c", "r", "i", "p", "t", ":">>

\* ""
P_none ==
  <<>>

\* "//"
P_slashes ==
  <<"/", "/">>

\* "+http://"
P_plus_http ==
  <<"+", "h", "t", "t", "p", ":", "/", "/">>

\* other beginnings
OtherPrefixes ==
  { P_space_http, P_tab_in_http, P_http_one_slash, P_http_no_slash, P_file, P_ftp,
    P_javascript, P_none, P_slashes, P_plus_http }

\* ""
H_none ==
  <<>>

\* "localhost"
H_localhost ==
  <<"l", "o", "c", "a", "l", "h", "o", "s", "t">>

\* "LocalHost"
H_LocalHost ==
  <<"L", "o", "c", "a", "l", "H", "o", "s", "t">>

\* "127.0.0.1"
H_127_0_0_1 ==
  <<"1", "2", "7", ".", "0", ".", "0", ".", "1">>

\* "127.0.0.2"
H_127_0_0_2 ==
  <<"1", "2", "7", ".", "0", ".", "0", ".", "2">>

\* "10.0.0.1"
H_10_0_0_1 ==
  <<"1", "0", ".", "0", ".", "0", ".", "1">>

\* "192.168.1.1"
H_192_168_1_1 ==
  <<"1", "9", "2", ".", "1", "6", "8", ".", "1", ".", "1">>

\* "169.254.169.254"
H_169_254_169_254 ==
  <<"1", "6", "9", ".", "2", "5", "4", ".", "1", "6", "9", ".", "2", "5", "4">>

\* "172.16.0.1"
H_172_16_0_1 ==
  <<"1", "7", "2", ".", "1", "6", ".", "0", ".", "1">>

\* "240.0.0.1"
H_240_0_0_1 ==
  <<"2", "4", "0", ".", "0", ".", "0", ".", "1">>

\* "8.8.8.8"
H_8_8_8_8 ==
  <<"8", ".", "8", ".", "8", ".", "8">>

\* "[::1]"
H_v6_loopback ==
  <<"[", ":", ":", "1", "]">>

\* "[fe80::1]"
H_v6_linklocal ==
  <<"[", "f", "e", "8", "0", ":", ":", "1", "]">>

\* "[::ffff:10.0.0.1]"
H_v6_mapped ==
  <<"[", ":", ":", "f", "f", "f", "f", ":", "1", "0", ".", "0", ".", "0", ".", "1", "]">>

\* "[::1"
H_v6_open ==
  <<"[", ":", ":", "1">>

\* "evil.com"
H_evil ==
  <<"e", "v", "i", "l", ".", "c", "o", "m">>

\* "example.com"
H_example ==
  <<"e", "x", "a", "m", "p", "l", "e", ".", "c", "o", "m">>

\* "010.0.0.1"
H_010_0_0_1 ==
  <<"0", "1", "0", ".", "0", ".", "0", ".", "1">>

\* hosts, as written in the authority
Hosts ==
  { H_none, H_localhost, H_LocalHost, H_127_0_0_1, H_127_0_0_2, H_10_0_0_1,
    H_192_168_1_1, H_169_254_169_254, H_172_16_0_1, H_240_0_0_1, H_8_8_8_8,
    H_v6_loopback, H_v6_linklocal, H_v6_mapped, H_v6_open, H_evil, H_example,
    H_010_0_0_1 }

\* the hosts of the requests with another beginning or with user information
FewHosts ==
  { H_none, H_localhost, H_10_0_0_1, H_evil, H_v6_open }

\* ""
O_none ==
  <<>>

\* ":5173"
O_5173 ==
  <<":", "5", "1", "7", "3">>

\* ":80"
O_80 ==
  <<":", "8", "0">>

\* ":443"
O_443 ==
  <<":", "4", "4", "3">>

\* ":51730"
O_51730 ==
  <<":", "5", "1", "7", "3", "0">>

\* ":99999"
O_99999 ==
  <<":", "9", "9", "9", "9", "9">>

\* ":05173"
O_05173 ==
  <<":", "0", "5", "1", "7", "3">>

\* ":5173.evil.com"
O_5173_evil ==
  <<":", "5", "1", "7", "3", ".", "e", "v", "i", "l", ".", "c", "o", "m">>

\* ports, as written after the host
Ports ==
  { O_none, O_5173, O_80, O_443, O_51730, O_99999, O_05173, O_5173_evil }

\* ""
X_none ==
  <<>>

\* "/print/test?x=1#f"
X_print ==
  <<"/", "p", "r", "i", "n", "t", "/", "t", "e", "s", "t", "?", "x", "=", "1", "#", "f">>

\* what follows the authority
Tails ==
  { X_none, X_print }

\* "?x=1"
X_query ==
  <<"?", "x", "=", "1">>

\* "#f"
X_fragment ==
  <<"#", "f">>

\* "/"
X_slash ==
  <<"/">>

\* a query, a fragment or a bare slash right after the authority
ShortTails ==
  { X_query, X_fragment, X_slash }

\* "user:pw@"
U_user ==
  <<"u", "s", "e", "r", ":", "p", "w", "@">>

\* "localhost:5173@"
U_localhost ==
  <<"l", "o", "c", "a", "l", "h", "o", "s", "t", ":", "5", "1", "7", "3", "@">>

\* "a@b@"
U_two_at ==
  <<"a", "@", "b", "@">>

\* "@"
U_empty ==
  <<"@">>

\* "us[er@"
U_bracket ==
  <<"u", "s", "[", "e", "r", "@">>

\* "[::1]@"
U_v6_loopback ==
  <<"[", ":", ":", "1", "]", "@">>

\* user information
UserInfos ==
  { U_user, U_localhost, U_two_at, U_empty, U_bracket, U_v6_loopback }

\* "/etc/passwd"
X_etc_passwd ==
  <<"/", "e", "t", "c", "/", "p", "a", "s", "s", "w", "d">>

\* the candidate URLs a caller sends
Candidates ==
  {<<>>}
    \cup {p \o h \o o \o x : p \in HttpPrefixes, h \in Hosts, o \in Ports, x \in Tails}
    \cup {p \o h \o o \o x : p \in OtherPrefixes, h \in FewHosts,
                             o \in {O_none, O_5173}, x \in {X_none, X_etc_passwd}}
    \cup {P_http \o u \o h \o o : u \in UserInfos, h \in FewHosts, o \in {O_none, O_5173}}
    \cup {P_http \o h \o o \o x : h \in FewHosts, o \in {O_none, O_5173}, x \in ShortTails}

(***************************************************************************)
(* Inputs of POST /pdf/generate                                            *)
(***************************************************************************)
\* "file:///etc/passwd"
R_file ==
  <<"f", "i", "l", "e", ":", "/", "/", "/", "e", "t", "c", "/", "p", "a", "s", "s", "w",
    "d">>

\* "http://169.254.169.254/latest/meta-data"
R_metadata ==
  <<"h", "t", "t", "p", ":", "/", "/", "1", "6", "9", ".", "2", "5", "4", ".", "1", "6",
    "9", ".", "2", "5", "4", "/", "l", "a", "t", "e", "s", "t", "/", "m", "e", "t", "a",
    "-", "d", "a", "t", "a">>

\* "https://evil.com/print/test"
R_evil ==
  <<"h", "t", "t", "p", "s", ":", "/", "/", "e", "v", "i", "l", ".", "c", "o", "m", "/",
    "p", "r", "i", "n", "t", "/", "t", "e", "s", "t">>

\* "http://localhost:5173"
R_localhost ==
  <<"h", "t", "t", "p", ":", "/", "/", "l", "o", "c", "a", "l", "h", "o", "s", "t", ":",
    "5", "1", "7", "3">>

\* "http://localhost:5173/print/test"
R_localhost_path ==
  <<"h", "t", "t", "p", ":", "/", "/", "l", "o", "c", "a", "l", "h", "o", "s", "t", ":",
    "5", "1", "7", "3", "/", "p", "r", "i", "n", "t", "/", "t", "e", "s", "t">>

\* "http://user:pw@localhost:5173"
R_user ==
  <<"h", "t", "t", "p", ":", "/", "/", "u", "s", "e", "r", ":", "p", "w", "@", "l", "o",
    "c", "a", "l", "h", "o", "s", "t", ":", "5", "1", "7", "3">>

\* "https://example.com"
R_example ==
  <<"h", "t", "t", "p", "s", ":", "/", "/", "e", "x", "a", "m", "p", "l", "e", ".", "c",
    "o", "m">>

\* "http://10.0.0.1"
R_10_0_0_1 ==
  <<"h", "t", "t", "p", ":", "/", "/", "1", "0", ".", "0", ".", "0", ".", "1">>

\* "3f2b8c1e-7a4d-4e9b-a1c5-9d0e6f7b2a10"
ID_a ==
  <<"3", "f", "2", "b", "8", "c", "1", "e", "-", "7", "a", "4", "d", "-", "4", "e", "9",
    "b", "-", "a", "1", "c", "5", "-", "9", "d", "0", "e", "6", "f", "7", "b", "2", "a",
    "1", "0">>

\* "3f2b8c1e-0b6f-4c2a-8e3d-5a1f9c7d4b22"
ID_b ==
  <<"3", "f", "2", "b", "8", "c", "1", "e", "-", "0", "b", "6", "f", "-", "4", "c", "2",
    "a", "-", "8", "e", "3", "d", "-", "5", "a", "1", "f", "9", "c", "7", "d", "4", "b",
    "2", "2">>

\* "c0ffee42-1d2e-4f3a-9b8c-7e6d5c4b3a21"
ID_c ==
  <<"c", "0", "f", "f", "e", "e", "4", "2", "-", "1", "d", "2", "e", "-", "4", "f", "3",
    "a", "-", "9", "b", "8", "c", "-", "7", "e", "6", "d", "5", "c", "4", "b", "3", "a",
    "2", "1">>

\* "{}"
CV_empty ==
  <<"{", "}">>

\* the JSON text of a CV with content
CV_filled ==
  <<"{", "\"", "p", "e", "r", "s", "o", "n", "a", "l", "\"", ":", " ", "{", "\"", "n", "a",
    "m", "e", "\"", ":", " ", "\"", "J", "o", "h", "n", " ", "D", "o", "e", "\"", "}", "}">>

\* "%PDF-1.4"
PDF_bytes ==
  <<"%", "P", "D", "F", "-", "1", ".", "4">>

\* "%PDF-1.7 two pages"
PDF_two_pages ==
  <<"%", "P", "D", "F", "-", "1", ".", "7", " ", "t", "w", "o", " ", "p", "a", "g", "e",
    "s">>

\* the byte strings page.pdf returns
PdfBuffers == {PDF_bytes, PDF_two_pages}

\* "Playwright error"
E_playwright ==
  <<"P", "l", "a", "y", "w", "r", "i", "g", "h", "t", " ", "e", "r", "r", "o", "r">>

\* the JSON text of a string
CV_text ==
  <<"\"", "J", "o", "h", "n", " ", "D", "o", "e", "\"">>

\* "null"
CV_null ==
  <<"n", "u", "l", "l">>

\* the JSON texts of the values that are false in a condition
Falsy ==
  { CV_empty, CV_null, <<"[", "]">>, <<"\"", "\"">>, <<"0">>,
    <<"f", "a", "l", "s", "e">> }

\* str(e) of the JSONDecodeError of a body that is not JSON
E_not_json ==
  <<"E", "x", "p", "e", "c", "t", "i", "n", "g", " ", "v", "a", "l", "u", "e", ":", " ",
    "l", "i", "n", "e", " ", "1", " ", "c", "o", "l", "u", "m", "n", " ", "1", " ", "(",
    "c", "h", "a", "r", " ", "0", ")">>

\* str(e) of the AttributeError of a body that is a JSON list
E_no_get ==
  <<"'", "l", "i", "s", "t", "'", " ", "o", "b", "j", "e", "c", "t", " ", "h", "a", "s",
    " ", "n", "o", " ", "a", "t", "t", "r", "i", "b", "u", "t", "e", " ", "'", "g", "e",
    "t", "'">>

\* str(e) of the AttributeError of a cv_data that is a JSON string
E_no_keys ==
  <<"'", "s", "t", "r", "'", " ", "o", "b", "j", "e", "c", "t", " ", "h", "a", "s", " ",
    "n", "o", " ", "a", "t", "t", "r", "i", "b", "u", "t", "e", " ", "'", "k", "e", "y",
    "s", "'">>

\* what request.json() or body.get raises for a body that is no JSON object
BodyErrors == {E_not_json, E_no_get}

\* a field the JSON body does not have
Absent == <<"absent">>

\* the frontend_url values of the requests
RequestUrls ==
  { R_file, R_metadata, R_evil, R_localhost, R_localhost_path, R_user, R_example,
    R_10_0_0_1, <<>> }

\* the JSON bodies of the requests
Bodies ==
  {[cv_data |-> CV_filled, template |-> T_classic, frontend_url |-> u] : u \in RequestUrls}
    \cup {[cv_data |-> c, template |-> t, frontend_url |-> u] :
            c \in {Absent, CV_empty, CV_filled, CV_text, CV_null}, t \in {Absent, T_modern},
            u \in {Absent, R_localhost}}

\* the values uuid.uuid4() returns
Ids == {ID_a, ID_b, ID_c}

\* "Http://"
P_Http_mixed ==
  <<"H", "t", "t", "p", ":", "/", "/">>

\* "HTTPS://"
P_HTTPS_upper ==
  <<"H", "T", "T", "P", "S", ":", "/", "/">>

\* "Example.com"
H_Example_mixed ==
  <<"E", "x", "a", "m", "p", "l", "e", ".", "c", "o", "m">>

\* "EXAMPLE.COM"
H_EXAMPLE_upper ==
  <<"E", "X", "A", "M", "P", "L", "E", ".", "C", "O", "M">>

\* "[2606:4700::a]"
H_v6_global ==
  <<"[", "2", "6", "0", "6", ":", "4", "7", "0", "0", ":", ":", "a", "]">>

\* "[2606:4700::A]"
H_v6_GLOBAL_upper ==
  <<"[", "2", "6", "0", "6", ":", "4", "7", "0", "0", ":", ":", "A", "]">>

\* "[2606:4700::a%eth0]"
H_v6_zone ==
  <<"[", "2", "6", "0", "6", ":", "4", "7", "0", "0", ":", ":", "a", "%", "e", "t", "h",
    "0", "]">>

\* "[2606:4700::a%Eth0]"
H_v6_Zone_mixed ==
  <<"[", "2", "6", "0", "6", ":", "4", "7", "0", "0", ":", ":", "a", "%", "E", "t", "h",
    "0", "]">>

\* ":8080"
O_8080 ==
  <<":", "8", "0", "8", "0">>

\* "http://example.com:8080"
A_example_8080 ==
  <<"h", "t", "t", "p", ":", "/", "/", "e", "x", "a", "m", "p", "l", "e", ".", "c", "o",
    "m", ":", "8", "0", "8", "0">>

\* "http://example.com"
A_http_example ==
  <<"h", "t", "t", "p", ":", "/", "/", "e", "x", "a", "m", "p", "l", "e", ".", "c", "o",
    "m">>

\* "http://localhost"
A_localhost ==
  <<"h", "t", "t", "p", ":", "/", "/", "l", "o", "c", "a", "l", "h", "o", "s", "t">>

\* "http://2606:4700::a"
A_v6_global ==
  <<"h", "t", "t", "p", ":", "/", "/", "2", "6", "0", "6", ":", "4", "7", "0", "0", ":",
    ":", "a">>

\* "http://2606:4700::a%Eth0"
A_v6_Zone_mixed ==
  <<"h", "t", "t", "p", ":", "/", "/", "2", "6", "0", "6", ":", "4", "7", "0", "0", ":",
    ":", "a", "%", "E", "t", "h", "0">>

\* "http://example.com:80"
A_example_80 ==
  <<"h", "t", "t", "p", ":", "/", "/", "e", "x", "a", "m", "p", "l", "e", ".", "c", "o",
    "m", ":", "8", "0">>

\* "http://Example.com"
A_Example_mixed ==
  <<"h", "t", "t", "p", ":", "/", "/", "E", "x", "a", "m", "p", "l", "e", ".", "c", "o",
    "m">>

\* "http://example.com/"
A_example_slash ==
  <<"h", "t", "t", "p", ":", "/", "/", "e", "x", "a", "m", "p", "l", "e", ".", "c", "o",
    "m", "/">>

\* "HTTP://example.com"
A_HTTP_example ==
  <<"H", "T", "T", "P", ":", "/", "/", "e", "x", "a", "m", "p", "l", "e", ".", "c", "o",
    "m">>

\* "https://example.com:443"
A_https_example_443 ==
  <<"h", "t", "t", "p", "s", ":", "/", "/", "e", "x", "a", "m", "p", "l", "e", ".", "c",
    "o", "m", ":", "4", "4", "3">>

\* the ways of writing the scheme
CasePrefixes == {P_http, P_HTTP_upper, P_Http_mixed, P_https, P_HTTPS_upper}

\* the ways of writing a host that is a name, an IPv4 and an IPv6 address
CaseHosts ==
  { H_example, H_Example_mixed, H_EXAMPLE_upper, H_localhost, H_LocalHost, H_8_8_8_8,
    H_v6_global, H_v6_GLOBAL_upper, H_v6_zone, H_v6_Zone_mixed }

\* the candidates that differ in the letter case of scheme and host, with and without
\* a default port and a trailing slash
CaseCandidates ==
  {p \o h \o o \o x : p \in CasePrefixes, h \in CaseHosts, o \in {O_none, O_80, O_443, O_8080},
                       x \in {X_none, X_slash}}

\* allow-list entries in canonical form
CanonicalEntries ==
  {A_example, A_http_example, A_example_8080, A_localhost, A_v6_global}

\* allow-list entries an operator wrote in another form: a default port, a capital
\* letter, a trailing slash, and a zone identifier with a capital letter
OtherEntries ==
  { A_example_80, A_Example_mixed, A_example_slash, A_HTTP_example, A_https_example_443,
    A_v6_Zone_mixed }

\* the allow-lists of these validations: one entry, or a canonical entry among the
\* entries of the other forms
CaseAllowLists ==
  {<<>>} \cup {<<a>> : a \in CanonicalEntries \cup OtherEntries}
    \cup {<<A_example_80, A_Example_mixed, c, A_example_slash, A_HTTP_example,
            A_https_example_443, A_v6_Zone_mixed>> : c \in CanonicalEntries}

\* "image/png"
T_image_png ==
  <<"i", "m", "a", "g", "e", "/", "p", "n", "g">>

\* "public, max-age=604800, immutable"
T_cache_week ==
  <<"p", "u", "b", "l", "i", "c", ",", " ", "m", "a", "x", "-", "a", "g", "e", "=", "6",
    "0", "4", "8", "0", "0", ",", " ", "i", "m", "m", "u", "t", "a", "b", "l", "e">>

\* "inline; filename=roast-og.png"
T_inline_roast ==
  <<"i", "n", "l", "i", "n", "e", ";", " ", "f", "i", "l", "e", "n", "a", "m", "e", "=",
    "r", "o", "a", "s", "t", "-", "o", "g", ".", "p", "n", "g">>

\* "Failed to generate OG image: "
T_failed_og ==
  <<"F", "a", "i", "l", "e", "d", " ", "t", "o", " ", "g", "e", "n", "e", "r", "a", "t",
    "e", " ", "O", "G", " ", "i", "m", "a", "g", "e", ":", " ">>

\* "Template not found: templates/roast_og_template.html"
T_template_not_found ==
  <<"T", "e", "m", "p", "l", "a", "t", "e", " ", "n", "o", "t", " ", "f", "o", "u", "n",
    "d", ":", " ", "t", "e", "m", "p", "l", "a", "t", "e", "s", "/", "r", "o", "a", "s",
    "t", "_", "o", "g", "_", "t", "e", "m", "p", "l", "a", "t", "e", ".", "h", "t", "m",
    "l">>

\* "png"
T_png ==
  <<"p", "n", "g">>

\* "..."
T_ellipsis ==
  <<".", ".", ".">>

\* "&amp;"
E_amp ==
  <<"&", "a", "m", "p", ";">>

\* "&lt;"
E_lt ==
  <<"&", "l", "t", ";">>

\* "&gt;"
E_gt ==
  <<"&", "g", "t", ";">>

\* "&quot;"
E_quot ==
  <<"&", "q", "u", "o", "t", ";">>

\* "&#39;"
E_apos ==
  <<"&", "#", "3", "9", ";">>

\* the first bytes of a PNG image
PNG_bytes ==
  <<".", "P", "N", "G">>

\* the first bytes of another PNG image
PNG_other ==
  <<".", "P", "N", "G", " ", "2">>

\* "0"
S_0 ==
  <<"0">>

\* "7"
S_7 ==
  <<"7">>

\* "10"
S_10 ==
  <<"1", "0">>

\* "11"
S_11 ==
  <<"1", "1">>

\* "15"
S_15 ==
  <<"1", "5">>

\* "-1"
S_minus_1 ==
  <<"-", "1">>

\* "abc"
S_abc ==
  <<"a", "b", "c">>

\* the lowest and the highest score the route accepts: Query(..., ge=0, le=10)
MinScore == 0

MaxScore == 10

\* the longest highlight the route accepts: Query(..., max_length=500)
MaxHighlight == 500

\* the longest highlight shown in full: len(safe_highlight) > 200
HighlightMax == 200

\* the characters kept of a longer one: safe_highlight[:197]
HighlightCut == 197

\* the values of the query parameter score
ScoreTexts == {S_0, S_7, S_10, S_11, S_15, S_minus_1, S_abc, Absent}

\* n ordinary characters
Pad(n) == [i \in 1..n |-> "a"]

\* the characters that are escaped, and one that is not
Marks == {<<"&">>, <<"<">>, <<">">>, <<"\"">>, <<"'">>, <<"b">>}

\* the lengths of the text before the mark: none, and those that put the mark or
\* its entity at the place where a long highlight is cut
PadLens == {0} \cup ((HighlightCut - Len(E_quot))..HighlightCut)

\* the lengths of the text after the mark: none, and enough to make the highlight
\* longer than what is shown in full
TailLens == {0, 2 * Len(E_quot)}

\* the values of the query parameter highlight
Highlights ==
  {Pad(k) \o m \o Pad(t) : k \in PadLens, m \in Marks, t \in TailLens}
    \cup {Pad(MaxHighlight), Pad(MaxHighlight + 1), <<>>, Absent}

\* the query strings of the requests
Queries == {[score |-> sc, highlight |-> h] : sc \in ScoreTexts, h \in Highlights}

\* the byte strings page.screenshot returns
Screenshots == {PNG_bytes, PNG_other}

(***************************************************************************)
(* State                                                                   *)
(***************************************************************************)
VARIABLES
  allowed_origins,  \* the allow-list of the process, read-only after startup
  url,              \* the candidate of the last validation
  result,           \* what that validation returned or raised
  frames,           \* the locals of the validations in progress, one frame per caller
  pc,               \* where generate_pdf stands
  body,             \* generate_pdf: body, the JSON object of the request
  cv_data,          \* generate_pdf: cv_data
  template,         \* generate_pdf: template
  frontend_url,     \* generate_pdf: frontend_url
  unique_id,        \* generate_pdf: unique_id
  print_url,        \* generate_pdf: print_url
  pdf_buffer,       \* generate_pdf: pdf_buffer
  calls,            \* the calls made to the browser, in order
  response,         \* the HTTP response of the request
  og                \* GET /og/roast: the query, the locals and the response

validatorVars == <<url, result>>

handlerVars ==
  <<pc, body, cv_data, template, frontend_url, unique_id, print_url, pdf_buffer, calls, response>>

vars == <<allowed_origins, validatorVars, frames, handlerVars, og>>

\* 422 Unprocessable Entity, the status of a request that fails validation
Unprocessable == 422

\* no validation has run yet
NoResult == [kind |-> "none", status |-> 0, detail |-> <<>>, origin |-> <<>>]

\* the number of request contexts that call the validator at the same time
MaxCallers == 2

\* the callers
Callers == 1..MaxCallers

\* parsed before urlparse has returned
NoParsed ==
  [error |-> <<>>, scheme |-> <<>>, netloc |-> <<>>, path |-> <<>>, query |-> <<>>,
   fragment |-> <<>>]

\* the locals of validate_frontend_url before a call: url, parsed, port, origin, and
\* what the call returns or raises
NoFrame ==
  [pc |-> "idle", url |-> <<>>, parsed |-> NoParsed, port |-> -1, origin |-> <<>>,
   result |-> NoResult]

\* no JSON object has been read from a request
NoBody == [cv_data |-> <<>>, template |-> <<>>, frontend_url |-> <<>>]

\* no response to GET /og/roast has been sent yet
NoOgResponse ==
  [status |-> 0, detail |-> <<>>, errors |-> {}, media_type |-> <<>>, content |-> <<>>,
   cache_control |-> <<>>, disposition |-> <<>>]

\* no GET /og/roast request has been received yet
NoOg ==
  [pc |-> "idle", query |-> [score |-> Absent, highlight |-> Absent], score |-> 0,
   highlight |-> <<>>, entered |-> FALSE, safe_highlight |-> <<>>,
   screenshot_bytes |-> <<>>, calls |-> <<>>, response |-> NoOgResponse]

\* no response has been sent yet
NoResponse ==
  [status |-> 0, detail |-> <<>>, media_type |-> <<>>, content |-> <<>>,
   disposition |-> <<>>]

Init ==
  /\ allowed_origins \in AllowLists
  /\ url = <<>>
  /\ result = NoResult
  /\ frames = [c \in Callers |-> NoFrame]
  /\ pc = "idle"
  /\ body = NoBody
  /\ cv_data = <<>>
  /\ template = <<>>
  /\ frontend_url = <<>>
  /\ unique_id = <<>>
  /\ print_url = <<>>
  /\ pdf_buffer = <<>>
  /\ calls = <<>>
  /\ response = NoResponse
  /\ og = NoOg

(***************************************************************************)
(* The validator called on its own                                         *)
(***************************************************************************)
\* slip: a validation that succeeds moves the matched entry to the front of the list
Validate_reorders(candidate) ==
  /\ result = NoResult
  /\ url' = candidate
  /\ result' = validate_frontend_url(candidate, allowed_origins)
  /\ allowed_origins' =
       IF result'.kind = "ok"
       THEN <<result'.origin>> \o SelectSeq(allowed_origins, LAMBDA a : a # result'.origin)
       ELSE allowed_origins
  /\ UNCHANGED <<frames, handlerVars, og>>

\* one call validate_frontend_url(candidate, allowed_origins), from the call to its
\* return value or exception
Validate(candidate) ==
  /\ result = NoResult
  /\ url' = candidate
  /\ result' = validate_frontend_url(candidate, allowed_origins)
  /\ UNCHANGED <<allowed_origins, frames, handlerVars, og>>

\* the caller has taken the result; the locals of the call are gone
ReturnToCaller ==
  /\ result # NoResult
  /\ url' = <<>>
  /\ result' = NoResult
  /\ UNCHANGED <<allowed_origins, frames, handlerVars, og>>

Next ==
  \/ \E candidate \in Candidates : Validate(candidate)
  \/ ReturnToCaller

Spec == Init /\ [][Next]_vars

(***************************************************************************)
(* The validator called with candidates in every letter case, against      *)
(* allow-lists whose entries are not all canonical                         *)
(***************************************************************************)
InitCase ==
  /\ allowed_origins \in CaseAllowLists
  /\ url = <<>>
  /\ result = NoResult
  /\ frames = [c \in Callers |-> NoFrame]
  /\ pc = "idle"
  /\ body = NoBody
  /\ cv_data = <<>>
  /\ template = <<>>
  /\ frontend_url = <<>>
  /\ unique_id = <<>>
  /\ print_url = <<>>
  /\ pdf_buffer = <<>>
  /\ calls = <<>>
  /\ response = NoResponse
  /\ og = NoOg

NextCase ==
  \/ \E candidate \in CaseCandidates : Validate(candidate)
  \/ ReturnToCaller

SpecCase == InitCase /\ [][NextCase]_vars

(***************************************************************************)
(* The validator called by several request contexts at once, statement by  *)
(* statement: every caller has its own locals, the allow-list is shared    *)
(***************************************************************************)
\* the candidates of the concurrent callers: one for each way out of the function,
\* and two that are accepted with different ports
ConcurrentCandidates ==
  { <<>>,
    P_http \o H_v6_open,
    P_ftp \o H_10_0_0_1,
    P_http_one_slash \o H_localhost,
    P_http \o H_10_0_0_1,
    P_http \o H_localhost \o O_99999,
    P_http \o H_localhost \o O_5173 \o X_print,
    P_https \o H_example }

\* the allow-lists of the concurrent callers: no entry or one entry
ConcurrentAllowLists == {<<>>} \cup {<<a>> : a \in AllowPool}

\* the frame of caller c becomes frame, nothing else changes
SetFrame(c, frame) ==
  /\ frames' = [frames EXCEPT ![c] = frame]
  /\ UNCHANGED <<allowed_origins, validatorVars, handlerVars, og>>

\* the call ends: it returns or raises res
Ends(frame, res) == [frame EXCEPT !.pc = "return", !.result = res]

\* the call goes on with the statement at next
GoesTo(frame, next) == [frame EXCEPT !.pc = next]

\* validate_frontend_url(candidate, allowed_origins) is called by c
Enter(c, candidate) ==
  /\ frames[c].pc = "idle"
  /\ SetFrame(c, [NoFrame EXCEPT !.pc = "check_url", !.url = candidate])

\* if not url: raise HTTPException(400, "frontend_url is required")
CheckUrl(c) ==
  /\ frames[c].pc = "check_url"
  /\ SetFrame(c, IF frames[c].url = <<>>
                 THEN Ends(frames[c], Reject("MissingTarget", T_required))
                 ELSE GoesTo(frames[c], "parse"))

\* parsed = urlparse(url), or the HTTPException of the except clause
Parsed(frame, p) ==
  IF p.error # <<>>
  THEN Ends(frame, Reject("MalformedTarget", T_invalid_format \o p.error))
  ELSE [frame EXCEPT !.pc = "check_scheme", !.parsed = p]

\* try: parsed = urlparse(url) except Exception
Parse(c) ==
  /\ frames[c].pc = "parse"
  /\ SetFrame(c, Parsed(frames[c], urlparse(frames[c].url)))

\* if parsed.scheme not in ("http", "https")
CheckScheme(c) ==
  /\ frames[c].pc = "check_scheme"
  /\ SetFrame(c, IF ~SchemeAllowed(frames[c].parsed.scheme)
                 THEN Ends(frames[c],
                           Reject("DisallowedScheme",
                                  T_invalid_scheme \o frames[c].parsed.scheme \o T_only_http))
                 ELSE GoesTo(frames[c], "check_hostname"))

\* if not parsed.hostname
CheckHostname(c) ==
  /\ frames[c].pc = "check_hostname"
  /\ SetFrame(c, IF hostname(frames[c].parsed) = <<>>
                 THEN Ends(frames[c], Reject("MissingHost", T_missing_hostname))
                 ELSE GoesTo(frames[c], "check_private"))

\* the private address check on the host
Blocked(frame, host) ==
  IF PrivateBlocked(host)
  THEN Ends(frame, Reject("PrivateAddressBlocked", T_private_ip \o host))
  ELSE GoesTo(frame, "read_port")

\* if is_private_ip(parsed.hostname): if parsed.hostname not in (...)
CheckPrivate(c) ==
  /\ frames[c].pc = "check_private"
  /\ SetFrame(c, Blocked(frames[c], hostname(frames[c].parsed)))

\* port = parsed.port and its default, or the ValueError of parsed.port
PortRead(frame, pinfo) ==
  IF pinfo.error # <<>>
  THEN Ends(frame, Raise(pinfo.error))
  ELSE [frame EXCEPT !.pc = "build_origin",
                     !.port = EffectivePort(frame.parsed.scheme, pinfo.value)]

\* slip: port is a variable of the module, shared by the callers
ReadPort_shared(c) ==
  /\ frames[c].pc = "read_port"
  /\ frames' = [k \in Callers |->
                  IF k = c THEN PortRead(frames[c], portinfo(frames[c].parsed))
                  ELSE [frames[k] EXCEPT
                          !.port = EffectivePort(frames[c].parsed.scheme,
                                                 portinfo(frames[c].parsed).value)]]
  /\ UNCHANGED <<allowed_origins, validatorVars, handlerVars, og>>

\* port = parsed.port; if port is None: port = 443 if https else 80
ReadPort(c) ==
  /\ frames[c].pc = "read_port"
  /\ SetFrame(c, PortRead(frames[c], portinfo(frames[c].parsed)))

\* origin = f"{scheme}://{hostname}", and f"{origin}:{port}" for another port
BuildOrigin(c) ==
  /\ frames[c].pc = "build_origin"
  /\ SetFrame(c, [frames[c] EXCEPT
                    !.pc = "check_allowlist",
                    !.origin = Origin(frames[c].parsed.scheme, hostname(frames[c].parsed),
                                      frames[c].port)])

\* slip: an origin that was accepted is taken off the list
CheckAllowlist_consumes(c) ==
  /\ frames[c].pc = "check_allowlist"
  /\ frames' = [frames EXCEPT
                  ![c] = Ends(frames[c], ValidateOrigin(frames[c].origin, allowed_origins))]
  /\ allowed_origins' = SelectSeq(allowed_origins, LAMBDA a : a # frames[c].origin)
  /\ UNCHANGED <<validatorVars, handlerVars, og>>

\* if origin not in allowed_origins: raise HTTPException(400, ...); return origin
CheckAllowlist(c) ==
  /\ frames[c].pc = "check_allowlist"
  /\ SetFrame(c, Ends(frames[c], ValidateOrigin(frames[c].origin, allowed_origins)))

\* the caller has the origin or the exception; the locals of the call are gone
Leave(c) ==
  /\ frames[c].pc = "return"
  /\ SetFrame(c, NoFrame)

InitConcurrent == Init /\ allowed_origins \in ConcurrentAllowLists

NextConcurrent ==
  \/ \E c \in Callers, candidate \in ConcurrentCandidates : Enter(c, candidate)
  \/ \E c \in Callers : CheckUrl(c)
  \/ \E c \in Callers : Parse(c)
  \/ \E c \in Callers : CheckScheme(c)
  \/ \E c \in Callers : CheckHostname(c)
  \/ \E c \in Callers : CheckPrivate(c)
  \/ \E c \in Callers : ReadPort(c)
  \/ \E c \in Callers : BuildOrigin(c)
  \/ \E c \in Callers : CheckAllowlist(c)
  \/ \E c \in Callers : Leave(c)

SpecConcurrent == InitConcurrent /\ [][NextConcurrent]_vars

(***************************************************************************)
(* main.generate_pdf                                                       *)
(***************************************************************************)
\* body.get(key, default)
Get(field, default) == IF field = Absent THEN default ELSE field

\* a call to the browser: the operation, its text argument, its numbers and its
\* other arguments
CallWith(op, text, nums, opts) == [op |-> op, text |-> text, nums |-> nums, opts |-> opts]

\* a call without other arguments
Call(op, text, nums) == CallWith(op, text, nums, <<>>)

\* cv_data is a JSON object, which has keys()
IsObject(cv) == cv # <<>> /\ cv[1] = "{"

\* list(cv_data.keys()) if cv_data else []: keys() is called on a value that is true
\* in a condition and raises AttributeError unless the value is an object
KeysRaises(cv) == cv \notin Falsy /\ ~IsObject(cv)

\* except Exception as e: raise HTTPException(status_code=500, ...)
ErrorResponse(e) ==
  [status |-> 500, detail |-> T_error_generating \o e, media_type |-> <<>>,
   content |-> <<>>, disposition |-> <<>>]

\* the script given to page.evaluate
EvaluateScript(cv, tpl) == T_cv_open \o cv \o T_tpl_open \o tpl \o T_tpl_close

\* the Content-Disposition header: unique_id[:8] is the first eight characters
Disposition(tpl, id) ==
  T_attachment \o tpl \o T_underscore \o SubSeq(id, 1, Min(8, Len(id))) \o T_dot_pdf

\* the navigation target
PrintUrl(frontend, id) == frontend \o T_print \o id

\* the request body is read and the locals are set (up to print_url)
ReceiveRequest(json, id) ==
  /\ pc \in {"idle", "done"}
  /\ ~KeysRaises(Get(json.cv_data, CV_empty))
  /\ body' = json
  /\ cv_data' = Get(json.cv_data, CV_empty)
  /\ template' = Get(json.template, T_classic)
  /\ frontend_url' = Get(json.frontend_url, T_default_frontend)
  /\ unique_id' = id
  /\ print_url' = PrintUrl(Get(json.frontend_url, T_default_frontend), id)
  /\ pdf_buffer' = <<>>
  /\ calls' = <<>>
  /\ response' = NoResponse
  /\ pc' = "launch"
  /\ UNCHANGED <<allowed_origins, frames, validatorVars, og>>

\* request.json() raises on a body that is not JSON, or body.get on a body that is no
\* JSON object: the except clause answers 500 before any local is set
ReadBodyFails(e) ==
  /\ pc \in {"idle", "done"}
  /\ body' = NoBody
  /\ cv_data' = <<>>
  /\ template' = <<>>
  /\ frontend_url' = <<>>
  /\ unique_id' = <<>>
  /\ print_url' = <<>>
  /\ pdf_buffer' = <<>>
  /\ calls' = <<>>
  /\ response' = ErrorResponse(e)
  /\ pc' = "done"
  /\ UNCHANGED <<allowed_origins, frames, validatorVars, og>>

\* cv_data.keys() raises on a cv_data that is true and is not a JSON object:
\* the except clause answers 500 before unique_id is set
KeysFails(json) ==
  /\ pc \in {"idle", "done"}
  /\ KeysRaises(Get(json.cv_data, CV_empty))
  /\ body' = json
  /\ cv_data' = Get(json.cv_data, CV_empty)
  /\ template' = Get(json.template, T_classic)
  /\ frontend_url' = Get(json.frontend_url, T_default_frontend)
  /\ unique_id' = <<>>
  /\ print_url' = <<>>
  /\ pdf_buffer' = <<>>
  /\ calls' = <<>>
  /\ response' = ErrorResponse(E_no_keys)
  /\ pc' = "done"
  /\ UNCHANGED <<allowed_origins, frames, validatorVars, og>>

\* one awaited browser call at position at: it returns and the handler goes on to
\* next, or it raises and the except clause answers 500
BrowserStep(at, next, call) ==
  /\ pc = at
  /\ \/ /\ calls' = Append(calls, call)
        /\ pc' = next
        /\ UNCHANGED response
     \/ /\ calls' = Append(calls, call)
        /\ pc' = "done"
        /\ response' = ErrorResponse(E_playwright)
  /\ UNCHANGED <<allowed_origins, frames, validatorVars, og, body, cv_data, template,
                 frontend_url, unique_id, print_url>>

Launch == BrowserStep("launch", "new_page", Call("launch", <<>>, <<>>)) /\ UNCHANGED pdf_buffer

NewPage == BrowserStep("new_page", "viewport", Call("new_page", <<>>, <<>>)) /\ UNCHANGED pdf_buffer

SetViewportSize ==
  BrowserStep("viewport", "goto", Call("set_viewport_size", <<>>, <<1200, 800>>))
    /\ UNCHANGED pdf_buffer

Goto ==
  BrowserStep("goto", "evaluate", CallWith("goto", print_url, <<>>, <<T_networkidle>>))
    /\ UNCHANGED pdf_buffer

Evaluate ==
  BrowserStep("evaluate", "wait", Call("evaluate", EvaluateScript(cv_data, template), <<>>))
    /\ UNCHANGED pdf_buffer

\* slip: the wait for the page to render is left out
WaitForTimeout_skipped ==
  /\ pc = "wait"
  /\ pc' = "pdf"
  /\ UNCHANGED <<allowed_origins, frames, validatorVars, og, body, cv_data, template,
                 frontend_url, unique_id, print_url, pdf_buffer, calls, response>>

WaitForTimeout ==
  BrowserStep("wait", "pdf", Call("wait_for_timeout", <<>>, <<2000>>)) /\ UNCHANGED pdf_buffer

Pdf(bytes) ==
  /\ BrowserStep("pdf", "close",
                 CallWith("pdf", T_A4, <<>>,
                          <<T_print_background, T_half_inch, T_half_inch, T_half_inch,
                            T_half_inch>>))
  /\ pdf_buffer' = IF pc' = "close" THEN bytes ELSE <<>>

Close == BrowserStep("close", "respond", Call("close", <<>>, <<>>)) /\ UNCHANGED pdf_buffer

\* slip: the file name is built with the default template, not the requested one
Respond_default_name ==
  /\ pc = "respond"
  /\ response' = [status |-> 200, detail |-> <<>>, media_type |-> T_application_pdf,
                  content |-> pdf_buffer, disposition |-> Disposition(T_classic, unique_id)]
  /\ pc' = "done"
  /\ UNCHANGED <<allowed_origins, frames, validatorVars, og, body, cv_data, template,
                 frontend_url, unique_id, print_url, pdf_buffer, calls>>

\* return Response(content=pdf_buffer, media_type="application/pdf", headers=...)
Respond ==
  /\ pc = "respond"
  /\ response' = [status |-> 200, detail |-> <<>>, media_type |-> T_application_pdf,
                  content |-> pdf_buffer, disposition |-> Disposition(template, unique_id)]
  /\ pc' = "done"
  /\ UNCHANGED <<allowed_origins, frames, validatorVars, og, body, cv_data, template,
                 frontend_url, unique_id, print_url, pdf_buffer, calls>>

NextPdf ==
  \/ \E json \in Bodies, id \in Ids : ReceiveRequest(json, id)
  \/ \E e \in BodyErrors : ReadBodyFails(e)
  \/ \E json \in Bodies : KeysFails(json)
  \/ Launch
  \/ NewPage
  \/ SetViewportSize
  \/ Goto
  \/ Evaluate
  \/ WaitForTimeout
  \/ \E bytes \in PdfBuffers : Pdf(bytes)
  \/ Close
  \/ Respond

SpecPdf == Init /\ [][NextPdf]_vars

(***************************************************************************)
(* og_routes.generate_roast_og_image and OGService.generate_roast_image   *)
(***************************************************************************)
\* the int of a query value: an optional sign and decimal digits
SignedInt(negative, digits) ==
  IF ~IsDigits(digits) THEN [ok |-> FALSE, value |-> 0]
  ELSE [ok |-> TRUE, value |-> IF negative THEN 0 - DecValue(digits) ELSE DecValue(digits)]

\* the int of a query value
QueryInt(text) ==
  IF text # <<>> /\ text[1] = "-" THEN SignedInt(TRUE, Tail(text)) ELSE SignedInt(FALSE, text)

\* slip: only the lower limit of the score is declared
ScoreInRange_no_upper(n) == n >= MinScore

\* ge=0, le=10
ScoreInRange(n) == n >= MinScore /\ n <= MaxScore

\* score: int = Query(..., ge=0, le=10): required, an integer, within the limits
ScoreAccepted(text, parsed) == text # Absent /\ parsed.ok /\ ScoreInRange(parsed.value)

\* highlight: str = Query(..., max_length=500): required, at most 500 characters
HighlightAccepted(text) == text # Absent /\ Len(text) <= MaxHighlight

\* the parameters of the query that fail the declared validation
QueryErrors(query) ==
  (IF ScoreAccepted(query.score, QueryInt(query.score)) THEN {} ELSE {"score"})
    \cup (IF HighlightAccepted(query.highlight) THEN {} ELSE {"highlight"})

\* the response to a query that fails validation: the handler is not called
ValidationResponse(errors) == [NoOgResponse EXCEPT !.status = Unprocessable, !.errors = errors]

\* s.replace(old, new) when the first old of s is at place i (0: there is none)
RECURSIVE Replace(_, _, _)
ReplaceAt(s, old, new, i) ==
  IF i = 0 THEN s
  ELSE SubSeq(s, 1, i - 1) \o new \o Replace(SubSeq(s, i + 1, Len(s)), old, new)

\* s.replace(old, new) for a one-character old
Replace(s, old, new) == ReplaceAt(s, old, new, Find(s, old, 1))

\* highlight.replace('&', '&amp;').replace('<', '&lt;').replace('>', '&gt;')
\*          .replace('"', '&quot;').replace("'", '&#39;')
Escape(highlight) ==
  Replace(Replace(Replace(Replace(Replace(highlight, "&", E_amp), "<", E_lt), ">", E_gt),
                  "\"", E_quot),
          "'", E_apos)

\* if len(safe_highlight) > 200: safe_highlight = safe_highlight[:197] + "..."
Truncate(safe) ==
  IF Len(safe) > HighlightMax THEN SubSeq(safe, 1, HighlightCut) \o T_ellipsis ELSE safe

\* the text put in the place of {{ highlight }}
SafeHighlight(highlight) == Truncate(Escape(highlight))

\* the service raises Exception("Failed to generate OG image: ...") and the route
\* answers 500 with the same words before it
OgErrorResponse(e) ==
  [NoOgResponse EXCEPT !.status = 500, !.detail = T_failed_og \o T_failed_og \o e]

\* the request arrives: the query is validated against the declared parameters; a
\* query that fails is answered 422, any other enters the handler
RoastRequest(query) ==
  /\ og.pc = "idle"
  /\ og' = IF QueryErrors(query) # {}
           THEN [NoOg EXCEPT !.pc = "done", !.query = query,
                             !.response = ValidationResponse(QueryErrors(query))]
           ELSE [NoOg EXCEPT !.pc = "service", !.query = query,
                             !.score = QueryInt(query.score).value,
                             !.highlight = query.highlight]
  /\ UNCHANGED <<allowed_origins, frames, validatorVars, handlerVars>>

\* generate_roast_image up to the rendered page: the template is read, the highlight
\* is escaped and cut, the placeholders are replaced; a missing template raises
RenderHtml ==
  /\ og.pc = "service"
  /\ \/ og' = [og EXCEPT !.entered = TRUE, !.pc = "launch",
                         !.safe_highlight = SafeHighlight(og.highlight)]
     \/ og' = [og EXCEPT !.entered = TRUE, !.pc = "done",
                         !.response = OgErrorResponse(T_template_not_found)]
  /\ UNCHANGED <<allowed_origins, frames, validatorVars, handlerVars>>

\* one awaited browser call of generate_roast_image at position at: it returns and
\* the method goes on to next, or it raises and the route answers 500
RoastStep(at, next, call) ==
  /\ og.pc = at
  /\ \/ og' = [og EXCEPT !.calls = Append(@, call), !.pc = next]
     \/ og' = [og EXCEPT !.calls = Append(@, call), !.pc = "done",
                         !.response = OgErrorResponse(E_playwright)]
  /\ UNCHANGED <<allowed_origins, frames, validatorVars, handlerVars>>

RoastLaunch == RoastStep("launch", "new_page", Call("launch", <<>>, <<>>))

RoastNewPage == RoastStep("new_page", "viewport", Call("new_page", <<>>, <<>>))

RoastSetViewportSize ==
  RoastStep("viewport", "set_content", Call("set_viewport_size", <<>>, <<1200, 630>>))

\* page.set_content(rendered_html): the page is given by the two values put into the
\* placeholders of the template
SetContent ==
  RoastStep("set_content", "wait", Call("set_content", og.safe_highlight, <<og.score>>))

RoastWaitForTimeout == RoastStep("wait", "screenshot", Call("wait_for_timeout", <<>>, <<500>>))

\* screenshot_bytes = await page.screenshot(type='png', full_page=False)
Screenshot(bytes) ==
  /\ og.pc = "screenshot"
  /\ \/ og' = [og EXCEPT !.calls = Append(@, Call("screenshot", T_png, <<>>)),
                         !.pc = "close", !.screenshot_bytes = bytes]
     \/ og' = [og EXCEPT !.calls = Append(@, Call("screenshot", T_png, <<>>)),
                         !.pc = "done", !.response = OgErrorResponse(E_playwright)]
  /\ UNCHANGED <<allowed_origins, frames, validatorVars, handlerVars>>

RoastClose == RoastStep("close", "respond", Call("close", <<>>, <<>>))

\* return Response(content=image_bytes, media_type="image/png", headers=...)
RoastRespond ==
  /\ og.pc = "respond"
  /\ og' = [og EXCEPT !.pc = "done",
                      !.response = [NoOgResponse EXCEPT !.status = 200,
                                                        !.media_type = T_image_png,
                                                        !.content = og.screenshot_bytes,
                                                        !.cache_control = T_cache_week,
                                                        !.disposition = T_inline_roast]]
  /\ UNCHANGED <<allowed_origins, frames, validatorVars, handlerVars>>

\* the response has been sent; the locals of the request are gone
RoastDone ==
  /\ og.pc = "done"
  /\ og' = NoOg
  /\ UNCHANGED <<allowed_origins, frames, validatorVars, handlerVars>>

\* the route is served by a process of its own: the allow-list plays no part
InitOg == Init /\ allowed_origins = <<>>

NextOg ==
  \/ \E query \in Queries : RoastRequest(query)
  \/ RenderHtml
  \/ RoastLaunch
  \/ RoastNewPage
  \/ RoastSetViewportSize
  \/ SetContent
  \/ RoastWaitForTimeout
  \/ \E bytes \in Screenshots : Screenshot(bytes)
  \/ RoastClose
  \/ RoastRespond
  \/ RoastDone

SpecOg == InitOg /\ [][NextOg]_vars

(***************************************************************************)
(* Properties of the validator (specification Spec)                        *)
(***************************************************************************)
\* a validation has run and its result is in result
Validated == result.kind # "none"

\* the candidate is a member of the list, by equality of the strings
MemberOf(origin, list) == \E k \in DOMAIN list : list[k] = origin

\* the candidate went through urlparse without an error and has scheme http or https
ParsedAsWeb(candidate) ==
  /\ candidate # <<>>
  /\ urlparse(candidate).error = <<>>
  /\ urlparse(candidate).scheme \in {T_http, T_https}

\* the host of the candidate, lower-cased, without user information, brackets and port
HostOf(candidate) == hostname(urlparse(candidate))

\* the port of the candidate is absent or a decimal number up to 65535
PortWellFormed(candidate) == portinfo(urlparse(candidate)).error = <<>>

\* the four octets are in an RFC1918, loopback, link-local or reserved (240/4) range
PrivateRange4(o) ==
  \/ o[1] = 10
  \/ o[1] = 172 /\ o[2] \in 16..31
  \/ o[1] = 192 /\ o[2] = 168
  \/ o[1] = 127
  \/ o[1] = 169 /\ o[2] = 254
  \/ o[1] >= 240

\* the eight hextets are ::1, in fe80::/10, in fc00::/7, or map a private IPv4 address
PrivateRange6(h) ==
  \/ h = <<0, 0, 0, 0, 0, 0, 0, 1>>
  \/ h[1] \in 65152..65215
  \/ h[1] \in 64512..65023
  \/ /\ \A i \in 1..5 : h[i] = 0
     /\ h[6] = 65535
     /\ PrivateRange4(<<h[7] \div 256, h[7] % 256, h[8] \div 256, h[8] % 256>>)

\* the host is a literal address of a private, loopback, link-local or reserved range
PrivateLiteral(host) ==
  LET ip == ip_address(host)
  IN  \/ ip.version = 4 /\ PrivateRange4(ip.parts)
      \/ ip.version = 6 /\ PrivateRange6(ip.parts)

\* the candidate passes every check before the canonical origin is built, so that it
\* has a canonical origin
HasCanonicalOrigin(candidate) ==
  /\ ParsedAsWeb(candidate)
  /\ HostOf(candidate) # <<>>
  /\ ~is_private_ip(HostOf(candidate)) \/ HostOf(candidate) = T_127_0_0_1
  /\ PortWellFormed(candidate)

\* the canonical origin of such a candidate: scheme://host and the port unless it is
\* 80 for http or 443 for https
CanonicalOrigin(candidate) ==
  LET parsed == urlparse(candidate)
      port   == portinfo(parsed).value
      shown  == IF port = -1 \/ (parsed.scheme = T_http /\ port = 80)
                             \/ (parsed.scheme = T_https /\ port = 443)
                THEN <<>>
                ELSE <<":">> \o ToDec(port)
  IN  parsed.scheme \o T_colon_slash_slash \o HostOf(candidate) \o shown

\* C1: whenever validate_frontend_url returns a value, the returned origin is equal
\* to one element of the allow-list that was passed in.
C1_ReturnedOriginInAllowlist ==
  result.kind = "ok" => MemberOf(result.origin, allowed_origins)

\* a validation returned an origin against a list of two entries
C1_Witness == result.kind = "ok" /\ Len(allowed_origins) = 2 /\ result.origin # <<>>

\* C5: a non-empty candidate that parses with a scheme other than http or https is
\* rejected with DisallowedScheme, status 400 and a detail that names the scheme,
\* whatever the host and the allow-list.
C5_DisallowedScheme ==
  (/\ Validated
   /\ url # <<>>
   /\ urlparse(url).error = <<>>
   /\ urlparse(url).scheme \notin {T_http, T_https})
  => /\ result.kind = "DisallowedScheme"
     /\ result.status = 400
     /\ StartsWith(result.detail, T_invalid_scheme \o urlparse(url).scheme)

\* an ftp candidate with a host was rejected although the list has entries
C5_Witness ==
  /\ result.kind = "DisallowedScheme"
  /\ StartsWith(url, P_ftp \o H_localhost)
  /\ allowed_origins # <<>>

\* the candidate begins with the literal text http:// or https://
StartsWithHttp(candidate) == StartsWith(candidate, P_http) \/ StartsWith(candidate, P_https)

\* the same after what urlparse does first: leading spaces and control characters are
\* stripped, tab, CR and LF are removed, the scheme is read without regard to case
StartsWithHttpNormalised(candidate) ==
  LET u == RemoveChars(LStrip(candidate, C0_CONTROL_OR_SPACE), UNSAFE_URL_BYTES_TO_REMOVE)
  IN  \E p \in {P_http, P_https} :
        Len(u) >= Len(p) /\ LowerStr(SubSeq(u, 1, Len(p))) = p

\* C6 as stated: every candidate that does not start with http:// or https:// fails
\* with DisallowedScheme or MalformedTarget.
C6_AsStated ==
  (Validated /\ ~StartsWithHttp(url))
  => result.kind \in {"DisallowedScheme", "MalformedTarget"}

\* C6 amended: every candidate that does not start with http:// or https:// after
\* urlparse has stripped leading whitespace, removed tab/CR/LF and lower-cased the
\* scheme fails, with MissingTarget, MalformedTarget, DisallowedScheme or MissingHost.
C6_NonHttpFails ==
  (Validated /\ ~StartsWithHttpNormalised(url))
  => result.kind \in {"MissingTarget", "MalformedTarget", "DisallowedScheme", "MissingHost"}

\* a candidate http:/host... was rejected for its missing host
C6_Witness ==
  /\ result.kind = "MissingHost"
  /\ StartsWith(url, P_http_one_slash \o H_localhost)
  /\ ~StartsWithHttpNormalised(url)

\* C7: an http/https candidate whose host is a literal IPv4 or IPv6 address of a
\* private, loopback, link-local or reserved range, other than 127.0.0.1, is rejected
\* with PrivateAddressBlocked, also when its origin is in the allow-list.
C7_PrivateAddressBlocked ==
  (/\ Validated
   /\ ParsedAsWeb(url)
   /\ PrivateLiteral(HostOf(url))
   /\ HostOf(url) # T_127_0_0_1)
  => result.kind = "PrivateAddressBlocked" /\ result.status = 400

\* http://10.0.0.1 was rejected although the allow-list holds http://10.0.0.1
C7_Witness ==
  /\ url = A_10_0_0_1
  /\ MemberOf(A_10_0_0_1, allowed_origins)
  /\ result.kind = "PrivateAddressBlocked"

\* C8: a candidate with host localhost or 127.0.0.1 succeeds if and only if its
\* canonical origin is in the allow-list, and otherwise is rejected with
\* OriginNotAllowlisted.
C8_LocalhostGatedByAllowlist ==
  (/\ Validated
   /\ ParsedAsWeb(url)
   /\ HostOf(url) \in {T_localhost, T_127_0_0_1})
  => IF HasCanonicalOrigin(url) /\ MemberOf(CanonicalOrigin(url), allowed_origins)
     THEN result.kind = "ok" /\ result.origin = CanonicalOrigin(url)
     ELSE result.kind = "OriginNotAllowlisted"

\* "http://localhost:51730"
C9_longer_port ==
  P_http \o H_localhost \o O_51730

\* "http://localhost:5173.evil.com"
C9_longer_host ==
  P_http \o H_localhost \o O_5173_evil

\* one string is the other with something added in front or behind
ProperAffix(a, b) ==
  a # b /\ (StartsWith(a, b) \/ StartsWith(b, a) \/ EndsWith(a, b) \/ EndsWith(b, a))

\* C9: membership is equality of strings: a candidate whose canonical origin is only a
\* prefix, suffix or extension of an entry is rejected with OriginNotAllowlisted, as
\* are http://localhost:51730 and http://localhost:5173.evil.com against
\* [http://localhost:5173].
C9_ExactMembership ==
  /\ (/\ Validated
      /\ HasCanonicalOrigin(url)
      /\ ~MemberOf(CanonicalOrigin(url), allowed_origins)
      /\ \E k \in DOMAIN allowed_origins : ProperAffix(CanonicalOrigin(url), allowed_origins[k]))
     => result.kind = "OriginNotAllowlisted"
  /\ (/\ Validated
      /\ url \in {C9_longer_port, C9_longer_host}
      /\ allowed_origins = <<A_localhost_5173>>)
     => result.kind = "OriginNotAllowlisted"

\* C10: a candidate whose canonical origin is not in the allow-list is rejected with
\* OriginNotAllowlisted and status 400, and the detail contains every entry of the list.
C10_NotAllowlistedListsEntries ==
  (/\ Validated
   /\ HasCanonicalOrigin(url)
   /\ ~MemberOf(CanonicalOrigin(url), allowed_origins))
  => /\ result.kind = "OriginNotAllowlisted"
     /\ result.status = 400
     /\ \A k \in DOMAIN allowed_origins : IsSubstring(allowed_origins[k], result.detail)

\* an origin was rejected against a list of two entries
C10_Witness ==
  /\ result.kind = "OriginNotAllowlisted"
  /\ Len(allowed_origins) = 2
  /\ url = P_https \o H_evil \o X_print

\* C11: for every candidate string and every allow-list, validate_frontend_url
\* returns a validated origin or rejects with one of the six validation errors and
\* status 400; it never ends with any other exception.
C11_OnlyValidationErrors ==
  Validated
  => \/ result.kind = "ok"
     \/ /\ result.kind \in {"MissingTarget", "MalformedTarget", "DisallowedScheme",
                             "MissingHost", "PrivateAddressBlocked", "OriginNotAllowlisted"}
        /\ result.status = 400

\* the order in which the validator is said to run its checks
CheckOrder ==
  <<"MissingTarget", "MalformedTarget", "DisallowedScheme", "MissingHost",
    "PrivateAddressBlocked", "OriginNotAllowlisted">>

\* the place of a kind in that order
Rank(kind) == CHOOSE i \in DOMAIN CheckOrder : CheckOrder[i] = kind

\* scheme://host[:port] of a parsed candidate, whatever its scheme: the port is shown
\* unless it is absent, 80 for http or 443 for https
OriginText(scheme, host, port) ==
  scheme \o T_colon_slash_slash \o host
    \o (IF port = -1 \/ (scheme = T_http /\ port = 80) \/ (scheme = T_https /\ port = 443)
        THEN <<>>
        ELSE <<":">> \o ToDec(port))

\* the rules violated, given what urlparse reads of the candidate
ViolatedRules(candidate, parsed, host, pinfo, list) ==
  {k \in {"MissingTarget"} : candidate = <<>>}
    \cup {k \in {"MalformedTarget"} : parsed.error # <<>>}
    \cup {k \in {"DisallowedScheme"} :
            parsed.error = <<>> /\ parsed.scheme \notin {T_http, T_https}}
    \cup {k \in {"MissingHost"} : parsed.error = <<>> /\ host = <<>>}
    \cup {k \in {"PrivateAddressBlocked"} :
            /\ parsed.error = <<>>
            /\ is_private_ip(host)
            /\ host \notin {T_localhost, T_127_0_0_1}}
    \cup {k \in {"OriginNotAllowlisted"} :
            /\ parsed.error = <<>>
            /\ pinfo.error = <<>>
            /\ ~MemberOf(OriginText(parsed.scheme, host, pinfo.value), list)}

\* the same on the parsed candidate
ViolatedParsed(candidate, parsed, list) ==
  ViolatedRules(candidate, parsed, hostname(parsed), portinfo(parsed), list)

\* the rules a candidate violates, each rule judged on its own: on the candidate for
\* MissingTarget, on the outcome of urlparse for MalformedTarget, and on the scheme,
\* host and port urlparse reads for the others (the last rule needs a port that is a
\* number up to 65535, without which there is no origin to look up)
Violated(candidate, list) == ViolatedParsed(candidate, urlparse(candidate), list)

\* the kind is the earliest of the rules violated
EarliestOf(kind, violated) ==
  kind \in violated /\ \A k \in violated : Rank(kind) <= Rank(k)

\* C12: the checks run in the order MissingTarget, MalformedTarget, DisallowedScheme,
\* MissingHost, PrivateAddressBlocked, OriginNotAllowlisted and stop at the first
\* failure: a candidate that violates one or several rules is rejected with the kind
\* of the earliest rule it violates; a candidate that violates none is not rejected
\* with any of the six kinds.
C12_EarliestViolatedRule ==
  Validated
  => \/ EarliestOf(result.kind, Violated(url, allowed_origins))
     \/ /\ Violated(url, allowed_origins) = {}
        /\ result.kind \notin {CheckOrder[i] : i \in DOMAIN CheckOrder}

\* ftp://10.0.0.1 violates three rules and was rejected for its scheme, and the list
\* has entries
C12_Witness ==
  /\ url = P_ftp \o H_10_0_0_1
  /\ Violated(url, allowed_origins)
       = {"DisallowedScheme", "PrivateAddressBlocked", "OriginNotAllowlisted"}
  /\ result.kind = "DisallowedScheme"
  /\ allowed_origins # <<>>

\* the characters that begin a path, a query or a fragment
TailChars == {"/", "?", "#"}

\* the position after the first :// of the candidate, 0 when it has none
AfterSlashes(candidate) ==
  IF \E i \in 1..(Len(candidate) - 2) : SubSeq(candidate, i, i + 2) = T_colon_slash_slash
  THEN 3 + CHOOSE i \in 1..(Len(candidate) - 2) :
             /\ SubSeq(candidate, i, i + 2) = T_colon_slash_slash
             /\ \A j \in 1..(i - 1) : SubSeq(candidate, j, j + 2) # T_colon_slash_slash
  ELSE 0

\* the position of the first character of the path, query or fragment at or after
\* from, one past the end when there is none
TailStart(candidate, from) ==
  IF \E j \in from..Len(candidate) : candidate[j] \in TailChars
  THEN CHOOSE j \in from..Len(candidate) :
         candidate[j] \in TailChars /\ \A k \in from..(j - 1) : candidate[k] \notin TailChars
  ELSE Len(candidate) + 1

\* the candidate cut after its authority
CutAt(candidate, from) ==
  IF from = 0 THEN candidate ELSE SubSeq(candidate, 1, TailStart(candidate, from) - 1)

\* the candidate without its path, query and fragment: the same scheme, user
\* information, host and port, and nothing after them
WithoutTail(candidate) == CutAt(candidate, AfterSlashes(candidate))

\* scheme://host[:port] and nothing else: no path, query or fragment follows
OriginForm(origin) ==
  \E p \in {P_http, P_https} :
    /\ StartsWith(origin, p)
    /\ Len(origin) > Len(p)
    /\ \A k \in (Len(p) + 1)..Len(origin) : origin[k] \notin TailChars

\* C13: candidates with the same scheme, host and port that differ only in path,
\* query or fragment validate to the identical result, here the candidate and the
\* candidate cut after its authority; a returned origin is scheme://host[:port] with
\* no path, query or fragment.
C13_PathQueryFragmentIgnored ==
  Validated
  => /\ result = validate_frontend_url(WithoutTail(url), allowed_origins)
     /\ result.kind = "ok" => OriginForm(result.origin)

\* http://localhost:5173/print/test?x=1#f returned http://localhost:5173
C13_Witness ==
  /\ url = P_http \o H_localhost \o O_5173 \o X_print
  /\ WithoutTail(url) = A_localhost_5173
  /\ result.kind = "ok"
  /\ result.origin = A_localhost_5173

\* the origin the validator computed: the one it returned, or the one its rejection
\* names between the quotes
ComputedOrigin(res) ==
  IF res.kind = "ok" THEN res.origin
  ELSE Partition(SubSeq(res.detail, Len(T_origin_open) + 1, Len(res.detail)), "'")[1]

\* the default port of a scheme
DefaultPort(scheme) == IF scheme = T_https THEN 443 ELSE 80

\* scheme://host, and :port if and only if a port is written and is not the default
OriginWithPort(scheme, host, port) ==
  IF port = -1 \/ port = DefaultPort(scheme)
  THEN scheme \o T_colon_slash_slash \o host
  ELSE scheme \o T_colon_slash_slash \o host \o <<":">> \o ToDec(port)

\* the same of a parsed candidate
OriginOfParsed(parsed) ==
  OriginWithPort(parsed.scheme, hostname(parsed), portinfo(parsed).value)

\* C14: in the canonical origin the port is appended if and only if it is not the
\* default of the scheme: a missing port counts as 80 for http and 443 for https, so
\* http://h and http://h:80 give http://h, https://h and https://h:443 give https://h,
\* and any other port, http with 443 and https with 80 included, is kept as :port.
C14_DefaultPortOmitted ==
  (Validated /\ HasCanonicalOrigin(url))
  => /\ result.kind \in {"ok", "OriginNotAllowlisted"}
     /\ ComputedOrigin(result) = OriginOfParsed(urlparse(url))

\* https://example.com:443 returned https://example.com
C14_Witness ==
  /\ StartsWith(url, P_https \o H_example \o O_443)
  /\ result.kind = "ok"
  /\ result.origin = A_example

\* the host is a name, not a literal IPv4 or IPv6 address
SymbolicHost(host) == host # <<>> /\ ip_address(host).version = 0

\* the candidate has a canonical origin and the list holds it
OriginAllowlisted(candidate, list) ==
  PortWellFormed(candidate) /\ MemberOf(OriginOfParsed(urlparse(candidate)), list)

\* C15: a host that is not a literal IP address, localhost included, is never
\* classified as private: is_private_ip is False for it, PrivateAddressBlocked is
\* never produced for it, and the outcome of an http/https candidate with such a host
\* is decided by the membership of its canonical origin in the allow-list alone.
C15_SymbolicHostNeverPrivate ==
  (Validated /\ ParsedAsWeb(url) /\ SymbolicHost(HostOf(url)))
  => /\ ~is_private_ip(HostOf(url))
     /\ result.kind # "PrivateAddressBlocked"
     /\ result.kind = IF OriginAllowlisted(url, allowed_origins)
                      THEN "ok"
                      ELSE "OriginNotAllowlisted"

\* no capital letter
LowerCase(text) == \A k \in DOMAIN text : text[k] \notin UpperChars

\* the text up to the zone identifier of a scoped IPv6 literal, the whole text when
\* there is none
BeforeZone(text) == Partition(text, "%")[1]

\* the origin does not end with the default port of its scheme
NoDefaultPort(origin) ==
  /\ StartsWith(origin, P_http) => ~EndsWith(origin, O_80)
  /\ StartsWith(origin, P_https) => ~EndsWith(origin, O_443)

\* canonical form as the spec words it: lower-case scheme and host, no default port,
\* no trailing slash or path
CanonicalForm(origin) == LowerCase(origin) /\ NoDefaultPort(origin) /\ OriginForm(origin)

\* the same with the zone identifier left as it is written
CanonicalOutsideZone(origin) ==
  LowerCase(BeforeZone(origin)) /\ NoDefaultPort(origin) /\ OriginForm(origin)

\* the candidate with every letter in lower case
Folded(candidate) == LowerStr(candidate)

\* the candidate with every letter outside a zone identifier in lower case
FoldedParts(before, zone) ==
  IF ~zone[2] THEN LowerStr(before) \o <<"%">> \o zone[1]
  ELSE LowerStr(before) \o <<"%">> \o zone[1] \o <<"]">> \o LowerStr(zone[3])

FoldedOutsideZone(candidate) ==
  IF ~Contains(candidate, "%") THEN LowerStr(candidate)
  ELSE FoldedParts(Partition(candidate, "%")[1], Partition(Partition(candidate, "%")[3], "]"))

\* C25 as stated: every returned origin is in canonical form (lower-case scheme and
\* host, no default port, no trailing slash or path); candidates that differ only in
\* the letter case of scheme or host validate identically; an allow-list entry that
\* is not in canonical form is never returned.
C25_AsStated ==
  Validated
  => /\ result.kind = "ok" => CanonicalForm(result.origin)
     /\ result = validate_frontend_url(Folded(url), allowed_origins)
     /\ \A k \in DOMAIN allowed_origins :
          ~CanonicalForm(allowed_origins[k]) => result.origin # allowed_origins[k]

\* C25, amended: the same with the zone identifier of a scoped IPv6 literal kept as
\* it is written: the returned origin is in lower case outside the zone identifier,
\* candidates that differ only in letter case outside it validate identically, and
\* an entry that is not in this form is never returned.
C25_CanonicalOutsideZone ==
  Validated
  => /\ result.kind = "ok" => CanonicalOutsideZone(result.origin)
     /\ result = validate_frontend_url(FoldedOutsideZone(url), allowed_origins)
     /\ \A k \in DOMAIN allowed_origins :
          ~CanonicalOutsideZone(allowed_origins[k]) => result.origin # allowed_origins[k]

\* HTTP://EXAMPLE.COM:80/ returned http://example.com from a list that also holds
\* http://example.com:80, http://Example.com and http://example.com/
C25_Witness ==
  /\ url = P_HTTP_upper \o H_EXAMPLE_upper \o O_80 \o X_slash
  /\ result.kind = "ok"
  /\ result.origin = A_http_example
  /\ Len(allowed_origins) > 1

\* the authority of the candidate: the text from position from up to the path, query
\* or fragment
Authority(candidate, from) == SubSeq(candidate, from, TailStart(candidate, from) - 1)

\* the user information of the candidate: what its authority holds before the last
\* '@', <<>> when it holds none
Userinfo(candidate) ==
  IF AfterSlashes(candidate) = 0 THEN <<>>
  ELSE RPartition(Authority(candidate, AfterSlashes(candidate)), "@")[1]

\* the candidate with the authority replaced by what follows its last '@'
CutUserinfo(candidate, from, authority) ==
  SubSeq(candidate, 1, from - 1) \o RPartition(authority, "@")[3]
    \o SubSeq(candidate, from + Len(authority), Len(candidate))

\* the candidate without its user information
WithoutUserinfo(candidate) ==
  IF AfterSlashes(candidate) = 0 THEN candidate
  ELSE CutUserinfo(candidate, AfterSlashes(candidate),
                   Authority(candidate, AfterSlashes(candidate)))

\* the user information holds a bracket, which the parser takes for the bracket of
\* an IPv6 literal
BracketInUserinfo(candidate) ==
  Contains(Userinfo(candidate), "[") \/ Contains(Userinfo(candidate), "]")

\* C26 as stated: user information is ignored by validation and never appears in the
\* result: the candidate validates exactly as the candidate without it, a returned
\* origin never contains an '@', and the host that is judged is the one after the
\* last '@' of the authority.
C26_AsStated ==
  (Validated /\ Contains(url, "@"))
  => /\ result = validate_frontend_url(WithoutUserinfo(url), allowed_origins)
     /\ result.kind = "ok" => ~Contains(result.origin, "@")
     /\ ParsedAsWeb(url) => HostOf(url) = HostOf(WithoutUserinfo(url))

\* C26, amended: the same for user information that holds no '[' or ']' (the parser
\* takes such a bracket for the bracket of an IPv6 literal); a returned origin never
\* contains an '@' whatever the user information is.
C26_UserinfoIgnored ==
  (Validated /\ Contains(url, "@"))
  => /\ ~BracketInUserinfo(url)
          => /\ result = validate_frontend_url(WithoutUserinfo(url), allowed_origins)
             /\ ParsedAsWeb(url) => HostOf(url) = HostOf(WithoutUserinfo(url))
     /\ result.kind = "ok" => ~Contains(result.origin, "@")

\* http://a@b@localhost:5173 returned http://localhost:5173
C26_Witness ==
  /\ url = P_http \o U_two_at \o H_localhost \o O_5173
  /\ result.kind = "ok"
  /\ result.origin = A_localhost_5173

(***************************************************************************)
(* Properties of repeated and concurrent validations                       *)
(***************************************************************************)
\* the call of caller c has ended and its result has not been taken yet
Ended(c) == frames[c].pc = "return"

\* C16: validating the same candidate against the same allow-list twice, in any order
\* relative to other validations, yields identical results: the same origin, or the
\* same error kind with the same message.
C16_SameCandidateSameResult ==
  \A c \in Callers, d \in Callers :
    (Ended(c) /\ Ended(d) /\ frames[c].url = frames[d].url)
    => frames[c].result = frames[d].result

\* two calls on http://localhost:5173/print/test?x=1#f have both returned the origin
C16_Witness ==
  \E c \in Callers, d \in Callers :
    /\ c # d
    /\ Ended(c)
    /\ Ended(d)
    /\ frames[c].url = P_http \o H_localhost \o O_5173 \o X_print
    /\ frames[d].url = frames[c].url
    /\ frames[c].result.kind = "ok"

\* C17: a call of validate_frontend_url, whether it returns or raises, leaves the
\* allow-list and all other state of the process unchanged and makes no browser or
\* network call.
C17_ValidationChangesNothingElse ==
  [][(result' # result /\ result' # NoResult)
     => UNCHANGED <<allowed_origins, frames, handlerVars, og>>]_vars

\* a validation has returned an origin, the list has two entries, and no browser call
\* was made
C17_Witness ==
  /\ result.kind = "ok"
  /\ result.origin = allowed_origins[Len(allowed_origins)]
  /\ Len(allowed_origins) = 2
  /\ calls = <<>>

\* C18: validations that run at the same time against the same allow-list each end
\* with the result they have when run alone, whatever the interleaving of their steps.
C18_ConcurrentAsAlone ==
  \A c \in Callers :
    Ended(c) => frames[c].result = validate_frontend_url(frames[c].url, allowed_origins)

\* a call has returned an origin while another call on another candidate is under way
C18_Witness ==
  \E c \in Callers, d \in Callers :
    /\ Ended(c)
    /\ frames[c].result.kind = "ok"
    /\ frames[d].pc \in {"check_private", "read_port", "build_origin", "check_allowlist"}
    /\ frames[d].url # frames[c].url

(***************************************************************************)
(* Properties of POST /pdf/generate (specification SpecPdf)                *)
(***************************************************************************)
\* what the validator says about the frontend_url of the request in progress
RequestValidation == validate_frontend_url(frontend_url, allowed_origins)

\* the body of the request was read and the handler went on to build the print URL
RequestRead == unique_id # <<>>

\* the kinds of a validation failure
ValidationErrors ==
  {"MissingTarget", "MalformedTarget", "DisallowedScheme", "MissingHost",
   "PrivateAddressBlocked", "OriginNotAllowlisted"}

\* C2: the validator runs on frontend_url before any browser call; when validation
\* fails no browser call is made for the request and the caller receives the
\* validation failure.
C2_ValidationBeforeRender ==
  (pc # "idle" /\ RequestRead /\ RequestValidation.kind \in ValidationErrors)
  => /\ calls = <<>>
     /\ response # NoResponse
          => /\ response.status = RequestValidation.status
             /\ response.detail = RequestValidation.detail

\* C3: the URL given to page.goto is the validated origin, a member of the allow-list,
\* followed by /print/<unique id>; nothing else of frontend_url appears in it.
C3_GotoValidatedOrigin ==
  \A i \in DOMAIN calls :
    calls[i].op = "goto"
    => /\ RequestValidation.kind = "ok"
       /\ MemberOf(RequestValidation.origin, allowed_origins)
       /\ calls[i].text = RequestValidation.origin \o T_print \o unique_id

\* C4: when frontend_url fails validation the response has status 400 and a detail,
\* never a 500-class status.
C4_ValidationFailureIs400 ==
  (response # NoResponse /\ RequestRead /\ RequestValidation.kind \in ValidationErrors)
  => response.status = 400 /\ response.detail # <<>>

\* the operations of the browser calls, in the order they were made
Ops == [i \in DOMAIN calls |-> calls[i].op]

\* a browser call was made for the request in progress: the last one made either
\* returned or is the one that raised
RenderStarted == calls # <<>>

\* C19: when a render step of generate_pdf fails, the response has status 500 and a
\* detail containing "Error generating PDF"; a 500 status is produced only by such a
\* failure of the render collaborator.
C19_ServerErrorOnlyOnRenderFailure ==
  /\ (pc = "done" /\ RenderStarted /\ response.status # 200)
     => /\ response.status = 500
        /\ StartsWith(response.detail, T_error_generating)
  /\ response.status = 500 => RenderStarted

\* "window.cvData = "
K_cvData ==
  <<"w", "i", "n", "d", "o", "w", ".", "c", "v", "D", "a", "t", "a", " ", "=", " ">>

\* "window.template = '"
K_template ==
  <<"w", "i", "n", "d", "o", "w", ".", "t", "e", "m", "p", "l", "a", "t", "e", " ", "=",
    " ", "'">>

\* the operations of a render, in order
RenderOrder ==
  <<"launch", "new_page", "set_viewport_size", "goto", "evaluate", "wait_for_timeout",
    "pdf", "close">>

\* the call at place i of the calls was made after a call of operation op
Preceded(i, op) == \E j \in 1..(i - 1) : calls[j].op = op

\* C20: on a successful generate_pdf the render calls happen exactly once each and in
\* the order launch, new_page, set_viewport_size(1200 x 800), goto(print URL),
\* evaluate(script assigning window.cvData and window.template),
\* wait_for_timeout(2000), pdf(A4, print_background, 0.5in margins), close; pdf is
\* never called before goto and evaluate.
C20_RenderCallOrder ==
  /\ response.status = 200
     => /\ Ops = RenderOrder
        /\ calls[3].nums = <<1200, 800>>
        /\ calls[4].text = frontend_url \o T_print \o unique_id
        /\ IsSubstring(K_cvData \o cv_data \o <<";">>, calls[5].text)
        /\ IsSubstring(K_template \o template \o <<"'", ";">>, calls[5].text)
        /\ calls[6].nums = <<2000>>
        /\ calls[7].text = T_A4
        /\ calls[7].opts
             = <<T_print_background, T_half_inch, T_half_inch, T_half_inch, T_half_inch>>
  /\ \A i \in DOMAIN calls :
       calls[i].op = "pdf" => Preceded(i, "goto") /\ Preceded(i, "evaluate")

\* a request with a CV and the template modern was answered with the PDF
C20_Witness ==
  /\ response.status = 200
  /\ response.content = PDF_bytes
  /\ cv_data = CV_filled
  /\ template = T_modern
  /\ Len(calls) = Len(RenderOrder)

\* the request lacks something the endpoint requires: cv_data is the empty object, or
\* the body has no template field, or no frontend_url field
Incomplete(json) ==
  \/ json.cv_data = CV_empty
  \/ json.template = Absent
  \/ json.frontend_url = Absent

\* C21: a POST /pdf/generate request whose cv_data is empty, or which lacks the
\* template field, or which lacks the frontend_url field, is rejected with status 422
\* and no render call is made.
C21_IncompleteRequestRejected ==
  (body # NoBody /\ Incomplete(body))
  => /\ calls = <<>>
     /\ response # NoResponse => response.status = Unprocessable

\* unique_id[:8]: the number of characters of the identifier in the file name
IdPrefixLen == 8

\* "attachment; filename=cv_<tpl>_<first characters of id>.pdf"
AttachmentName(tpl, id) ==
  T_attachment \o tpl \o T_underscore \o SubSeq(id, 1, IdPrefixLen) \o T_dot_pdf

\* the text after the last "/" of the URL page.goto was called with
GotoId == LET target == calls[4].text IN SubSeq(target, RFind(target, "/") + 1, Len(target))

LaunchSucceeded == Len(calls) >= 2

\* the places of the calls to browser.close()
CloseCalls == {i \in DOMAIN calls : calls[i].op = "close"}

\* C24: in generate_pdf, on every execution in which the browser launch succeeded,
\* browser.close() is called exactly once before the handler finishes, also when a
\* later step (new_page, goto, evaluate, wait_for_timeout or pdf) raises.
C24_BrowserClosedOnce ==
  (pc = "done" /\ LaunchSucceeded) => Cardinality(CloseCalls) = 1

(***************************************************************************)
(* Properties of GET /og/roast (specification SpecOg)                      *)
(***************************************************************************)
\* the score of the query is a number outside 0..10
ScoreOutside(text) ==
  /\ text # Absent
  /\ QueryInt(text).ok
  /\ QueryInt(text).value < MinScore \/ QueryInt(text).value > MaxScore

\* the highlight of the query is longer than 500 characters
HighlightTooLong(text) == text # Absent /\ Len(text) > MaxHighlight

Entities == {E_amp, E_lt, E_gt, E_quot, E_apos}

\* the characters that must not appear as they are
RawChars == {"<", ">", "\"", "'"}

\* an entity begins at place i of the text and is complete
BeginsEntity(text, i) ==
  \E e \in Entities : i + Len(e) - 1 <= Len(text) /\ SubSeq(text, i, i + Len(e) - 1) = e

\* C27: in generate_roast_image the text substituted for {{ highlight }} is at most
\* 200 characters long, contains none of the raw characters < > " ', and every '&' in
\* it begins a complete entity among &amp; &lt; &gt; &quot; &#39;, also when the
\* escaped text was cut to 197 characters plus "...".
C27_HighlightSafe ==
  og.entered
  => /\ Len(og.safe_highlight) <= HighlightMax
     /\ \A i \in DOMAIN og.safe_highlight : og.safe_highlight[i] \notin RawChars
     /\ \A i \in DOMAIN og.safe_highlight :
          og.safe_highlight[i] = "&" => BeginsEntity(og.safe_highlight, i)
====
